---- MODULE Spec2Model ----
(***************************************************************************)
(* Employee task tracker: the REST backend (users, session tokens, tasks,  *)
(* departments) as a state machine over the document store, and the two    *)
(* dashboards of the browser client with their task filters.               *)
(*                                                                         *)
(* Text values that the code inspects character by character (emails,      *)
(* passwords, titles, descriptions) are sequences of one-character         *)
(* strings; labels that are only compared (names, roles, departments,      *)
(* ids) are strings.  Time is counted in units of JWT_EXPIRE (30 days).    *)
(***************************************************************************)
EXTENDS Naturals, Integers, Sequences, FiniteSets, TLC

\* ------------------------------------------------------------------ bounds
MaxUsers == 5       \* user records the store may hold
MaxPending == 2     \* register requests between validation and insert
MaxTime == 1        \* clock ticks
MaxTaskIds == 2     \* task ids the store hands out
MaxDeptIds == 2     \* department ids the store hands out
MaxProtectDocs == 1 \* documents per collection where the headers are varied
MaxListed == 2      \* tasks a dashboard has fetched
MaxClock == 72      \* the browser's clock stops ticking here (hours)
MaxInFlight == 2    \* requests sent and not yet settled

\* ------------------------------------------------------- program constants
PasswordMinLength == 6
NameMaxLength == 50
JWT_EXPIRE == 1

VARIABLES
    users,        \* User collection: id -> document
    pending,      \* User.create calls that validated and hashed, not yet inserted
    tasks,        \* Task collection: id -> document
    nextTaskId,   \* number of task ids handed out so far
    departments,  \* Department collection: id -> document
    nextDeptId,   \* number of department ids handed out so far
    now,          \* the server clock
    last,         \* the last request served and its response
    browser,            \* the browser's clock (hours since the epoch) and time zone
    employeeDashboard,  \* EmployeeDashboard's state: tasks, filter
    adminDashboard,     \* AdminDashboard's state: tasks and the selections
    dateRangePicker,    \* DateRangePicker's state: startDate, endDate
    inflight      \* the requests sent and not yet settled, with where their
                  \* handlers stand: slot -> request

\* the client's variables, which no request handler that runs in one step
\* touches, the requests under way among them
client == <<browser, employeeDashboard, adminDashboard, dateRangePicker, inflight>>

\* the server's variables, which no dashboard touches unless it sends a request
server == <<users, pending, tasks, nextTaskId, departments, nextDeptId, now, last, inflight>>

vars == <<users, pending, tasks, nextTaskId, departments, nextDeptId, now, last,
          browser, employeeDashboard, adminDashboard, dateRangePicker, inflight>>

\* ----------------------------------------------------------------- text
RECURSIVE TrimLeft(_)
TrimLeft(s) ==
    IF s # << >> /\ Head(s) = " " THEN TrimLeft(Tail(s)) ELSE s

RECURSIVE TrimRight(_)
TrimRight(s) ==
    IF s # << >> /\ s[Len(s)] = " " THEN TrimRight(SubSeq(s, 1, Len(s) - 1)) ELSE s

\* String.prototype.trim, which the schema's trim: true applies
Trim(s) == TrimRight(TrimLeft(s))

\* ------------------------------------------------------------ email regex
\* \w is [A-Za-z0-9_]
WordChars ==
    {"a", "b", "c", "d", "e", "f", "g", "h", "i", "j", "k", "l", "m",
     "n", "o", "p", "q", "r", "s", "t", "u", "v", "w", "x", "y", "z",
     "A", "B", "C", "D", "E", "F", "G", "H", "I", "J", "K", "L", "M",
     "N", "O", "P", "Q", "R", "S", "T", "U", "V", "W", "X", "Y", "Z",
     "0", "1", "2", "3", "4", "5", "6", "7", "8", "9", "_"}
SepChars == {".", "-"}

\* \w+([\.-]?\w+)*
IsAtom(s) ==
    /\ Len(s) >= 1
    /\ s[1] \in WordChars
    /\ s[Len(s)] \in WordChars
    /\ \A i \in 1..Len(s) : s[i] \in WordChars \cup SepChars
    /\ \A i \in 1..(Len(s) - 1) : ~(s[i] \in SepChars /\ s[i + 1] \in SepChars)

\* (\.\w{2,3})+
RECURSIVE IsTlds(_)
IsTlds(s) ==
    /\ Len(s) >= 3
    /\ s[1] = "."
    /\ \E k \in {2, 3} :
          /\ Len(s) >= 1 + k
          /\ \A i \in 2..(1 + k) : s[i] \in WordChars
          /\ \/ Len(s) = 1 + k
             \/ IsTlds(SubSeq(s, k + 2, Len(s)))

\* /^\w+([\.-]?\w+)*@\w+([\.-]?\w+)*(\.\w{2,3})+$/
EmailMatch(s) ==
    \E i \in 1..Len(s) :
        /\ s[i] = "@"
        /\ IsAtom(SubSeq(s, 1, i - 1))
        /\ \E j \in (i + 1)..(Len(s) - 1) :
              /\ IsAtom(SubSeq(s, i + 1, j))
              /\ IsTlds(SubSeq(s, j + 1, Len(s)))

\* ------------------------------------------------------------ responses
Ok(status, body) == [status |-> status, body |-> body]

\* errorHandler's JSON; message is always a sequence of strings here (the
\* handler sends a string, or an array of strings for a ValidationError)
ErrorJson(status, messages) ==
    [status |-> status, body |-> [success |-> FALSE, message |-> messages]]

ErrorResponse(message, statusCode) ==
    [name |-> "Error", code |-> 0, statusCode |-> statusCode, messages |-> <<message>>]

ValidationError(messages) ==
    [name |-> "ValidationError", code |-> 0, statusCode |-> 0, messages |-> messages]

DuplicateKeyError ==
    [name |-> "MongoServerError", code |-> 11000, statusCode |-> 0,
     messages |-> <<"E11000 duplicate key error collection">>]

CastError ==
    [name |-> "CastError", code |-> 0, statusCode |-> 0,
     messages |-> <<"Cast to ObjectId failed">>]

TypeError ==
    [name |-> "TypeError", code |-> 0, statusCode |-> 0,
     messages |-> <<"Cannot read properties of null">>]

DuplicateStatus == 400

errorHandler(err) ==
    LET e1 == IF err.name = "CastError"
              THEN ErrorResponse("Resource not found", 404) ELSE err
        e2 == IF err.code = 11000
              THEN ErrorResponse("Duplicate field value entered", DuplicateStatus) ELSE e1
        e3 == IF err.name = "ValidationError"
              THEN [ErrorResponse("", 400) EXCEPT !.messages = err.messages] ELSE e2
    IN  ErrorJson(IF e3.statusCode # 0 THEN e3.statusCode ELSE 500,
                  IF e3.messages # << >> THEN e3.messages ELSE <<"Server Error">>)

\* ---------------------------------------------------------------- users
\* JSON null in a request body; a default fills in for undefined only, and
\* the enum validator lets null and undefined pass
Null == "<null>"

NoRole == "<undefined>"
Roles == {"employee", "admin"}

BcryptPrefix == "$2a$10$"
BcryptHash(password, salt) == <<BcryptPrefix, salt>> \o password
BcryptCompare(entered, stored) == stored = BcryptHash(entered, stored[2])
IsBcrypt(v) == Len(v) >= 2 /\ v[1] = BcryptPrefix

\* the validators without the password's minlength
UserValidationMessages_NoMinLength(doc) ==
    (IF Trim(doc.name) = << >> THEN <<"Please provide a name">> ELSE << >>)
    \o (IF doc.email = << >> THEN <<"Please provide an email">>
        ELSE IF ~EmailMatch(doc.email) THEN <<"Please provide a valid email">> ELSE << >>)
    \o (IF doc.password = << >> THEN <<"Please add a password">> ELSE << >>)
    \o (IF doc.role # NoRole /\ doc.role # Null /\ doc.role \notin Roles
        THEN <<doc.role \o " is not a valid enum value for path role.">> ELSE << >>)
    \o (IF Trim(doc.department) = << >> THEN <<"Please provide a department">> ELSE << >>)

\* UserSchema's validators, in schema order; empty when the document is valid
UserValidationMessages(doc) ==
    (IF Trim(doc.name) = << >> THEN <<"Please provide a name">>
     ELSE IF Len(Trim(doc.name)) > NameMaxLength
          THEN <<"Name cannot be more than 50 characters">> ELSE << >>)
    \o (IF doc.email = << >> THEN <<"Please provide an email">>
        ELSE IF ~EmailMatch(doc.email) THEN <<"Please provide a valid email">> ELSE << >>)
    \o (IF doc.password = << >> THEN <<"Please add a password">>
        ELSE IF Len(doc.password) < PasswordMinLength
             THEN <<"Password must be at least 6 characters">> ELSE << >>)
    \o (IF doc.role # NoRole /\ doc.role # Null /\ doc.role \notin Roles
        THEN <<doc.role \o " is not a valid enum value for path role.">> ELSE << >>)
    \o (IF Trim(doc.department) = << >> THEN <<"Please provide a department">> ELSE << >>)

\* a registration that stores every newcomer as an employee
UserDocument_AlwaysEmployee(body) ==
    [name |-> Trim(body.name), email |-> body.email, password |-> body.password,
     role |-> "employee", department |-> Trim(body.department)]

\* the document new User(body) builds: setters (trim) and defaults applied; the
\* default fills in for a path that is undefined, not for one that is null
UserDocument(body) ==
    [name |-> Trim(body.name), email |-> body.email, password |-> body.password,
     role |-> IF body.role = NoRole THEN "employee" ELSE body.role,
     department |-> Trim(body.department)]

ObjectId(prefix, n) == prefix \o ToString(n)

getSignedJwtToken(user, t) ==
    [id |-> user._id, role |-> user.role, exp |-> t + JWT_EXPIRE, sig |-> "secret"]

sendTokenResponse(user, statusCode, t) ==
    Ok(statusCode,
       [id |-> user._id, name |-> user.name, email |-> user.email, role |-> user.role,
        department |-> user.department, token |-> getSignedJwtToken(user, t)])

WithoutPassword_Selected(user) == user

\* a query result without the select: false path
WithoutPassword(user) == [f \in DOMAIN user \ {"password"} |-> user[f]]

UsersWithEmail(email) == {u \in DOMAIN users : users[u].email = email}

\* ------------------------------------------------------------- protect
\* An Authorization header is the sequence of its space-separated parts;
\* a token is what jwt.verify reads from it: payload, expiry, signature.
NoHeader == << >>
MalformedToken == [id |-> "", role |-> "", exp |-> 0, sig |-> "malformed"]
Bearer(token) == <<"Bearer", token>>
BearerOnly == <<"Bearer">>
BasicHeader == <<"Basic", MalformedToken>>

\* String.prototype.startsWith('Bearer') on the header's first part
StartsWithBearer(scheme) == scheme \in {"Bearer", "Bearerx"}

JwtVerify_NoExpiry(token, t) == token.sig = "secret"

\* jwt.verify: the signature is ours and the token has not expired
JwtVerify(token, t) == token.sig = "secret" /\ t < token.exp

NullUser == ""
FindUserById(id) == IF id \in DOMAIN users THEN id ELSE NullUser

NotAuthorizedRoute == ErrorResponse("Not authorized to access this route", 401)

\* protect: [next |-> TRUE, user |-> req.user] when the controller is to run,
\* else the error handed to next()
protect(hdr) ==
    LET hasToken == Len(hdr) >= 2 /\ StartsWithBearer(hdr[1])
    IN  IF ~hasToken
        THEN [next |-> FALSE, user |-> NullUser, err |-> NotAuthorizedRoute]
        ELSE IF ~JwtVerify(hdr[2], now)
        THEN [next |-> FALSE, user |-> NullUser, err |-> NotAuthorizedRoute]
        ELSE [next |-> TRUE, user |-> FindUserById(hdr[2].id), err |-> NotAuthorizedRoute]

authorize_AnyRole(roles, user) == [next |-> TRUE, err |-> NotAuthorizedRoute]

\* authorize(...roles)
authorize(roles, user) ==
    IF users[user].role \notin roles
    THEN [next |-> FALSE,
          err |-> ErrorResponse("User role " \o users[user].role
                                \o " is not authorized to access this route", 403)]
    ELSE [next |-> TRUE, err |-> NotAuthorizedRoute]

\* A protected route: protect, then the optional authorize(roles), then the
\* controller's response; a controller reading req.user.role of a null user throws
Route(hdr, roles, controller(_)) ==
    LET p == protect(hdr)
    IN  IF ~p.next THEN errorHandler(p.err)
        ELSE IF p.user = NullUser THEN errorHandler(TypeError)
        ELSE IF roles # {} /\ ~authorize(roles, p.user).next
             THEN errorHandler(authorize(roles, p.user).err)
        ELSE controller(p.user)

Request(op, hdr, arg, res) ==
    [op |-> op, hdr |-> hdr, user |-> protect(hdr).user, arg |-> arg, res |-> res]

NoArg == [none |-> TRUE]
NoRequest == [op |-> "none", hdr |-> NoHeader, user |-> NullUser, arg |-> NoArg,
              res |-> Ok(0, NoArg)]

\* ------------------------------------------------------ controllers/auth
Salts == {"salt1", "salt2"}

\* register, up to the end of the pre('save') hook: validation, then the hash
RegisterValidate(body) ==
    LET doc == UserDocument(body)
        msgs == UserValidationMessages(doc)
    IN  /\ IF msgs # << >>
           THEN /\ last' = Request("register", NoHeader, body,
                                   errorHandler(ValidationError(msgs)))
                /\ UNCHANGED pending
           ELSE /\ Cardinality(pending) < MaxPending
                /\ \E salt \in Salts :
                      pending' = pending \cup
                          {[body |-> body,
                            doc |-> [doc EXCEPT !.password = BcryptHash(doc.password, salt)],
                            createdAt |-> now]}
                /\ last' = NoRequest
        /\ UNCHANGED <<client, users, tasks, nextTaskId, departments, nextDeptId, now>>

InsertUser(p) ==
    LET id == ObjectId("u", Cardinality(DOMAIN users) + 1)
    IN  [u \in DOMAIN users \cup {id} |->
            IF u = id
            THEN [_id |-> id, name |-> p.doc.name, email |-> p.doc.email,
                  password |-> p.doc.password, role |-> p.doc.role,
                  department |-> p.doc.department, createdAt |-> p.createdAt]
            ELSE users[u]]

EmailIndexRefuses_NoIndex(p) == FALSE

\* whether the unique index on email refuses the insert
EmailIndexRefuses(p) == UsersWithEmail(p.doc.email) # {}

\* register, from the insert on: the unique index decides, then the response
RegisterInsert(p) ==
    /\ p \in pending
    /\ pending' = pending \ {p}
    /\ IF EmailIndexRefuses(p)
       THEN /\ last' = Request("register", NoHeader, p.body, errorHandler(DuplicateKeyError))
            /\ UNCHANGED users
       ELSE /\ Cardinality(DOMAIN users) < MaxUsers
            /\ users' = InsertUser(p)
            /\ last' = Request("register", NoHeader, p.body,
                   sendTokenResponse(
                       InsertUser(p)[ObjectId("u", Cardinality(DOMAIN users) + 1)], 201, now))
    /\ UNCHANGED <<client, tasks, nextTaskId, departments, nextDeptId, now>>

UnknownEmailError_NotFound == ErrorResponse("User not found", 404)

\* the error login hands to next() when no user has the email
UnknownEmailError == ErrorResponse("Invalid credentials", 401)

\* the error login hands to next() when the password does not match
PasswordMismatchError == ErrorResponse("Invalid credentials", 401)

LoginResponse(body) ==
    IF body.email = << >> \/ body.password = << >>
    THEN errorHandler(ErrorResponse("Please provide an email and password", 400))
    ELSE IF UsersWithEmail(body.email) = {}
    THEN errorHandler(UnknownEmailError)
    ELSE LET user == users[CHOOSE u \in UsersWithEmail(body.email) : TRUE]
         IN  IF ~BcryptCompare(body.password, user.password)
             THEN errorHandler(PasswordMismatchError)
             ELSE sendTokenResponse(user, 200, now)

Login(body) ==
    /\ last' = Request("login", NoHeader, body, LoginResponse(body))
    /\ UNCHANGED <<client, users, pending, tasks, nextTaskId, departments, nextDeptId, now>>

GetMeController(user) ==
    Ok(200, [success |-> TRUE, data |-> WithoutPassword(users[user])])

GetMe(hdr) ==
    /\ last' = Request("getMe", hdr, NoArg, Route(hdr, {}, GetMeController))
    /\ UNCHANGED <<client, users, pending, tasks, nextTaskId, departments, nextDeptId, now>>

Tick ==
    /\ now < MaxTime
    /\ now' = now + 1
    /\ last' = NoRequest
    /\ UNCHANGED <<client, users, pending, tasks, nextTaskId, departments, nextDeptId>>

\* ---------------------------------------------------------------- tasks
\* tasks and departments are the collections in insertion order
TitleMaxLength == 100
DescriptionMaxLength == 500
NoDate == -1
Statuses == {"To Do", "In Progress", "Review", "Done"}
Priorities == {"Low", "Medium", "High", "Urgent"}

Has(body, f) == f \in DOMAIN body

\* the index in the collection of the document with this id, 0 when absent
RECURSIVE IndexOf(_, _, _)
IndexOf(coll, id, i) ==
    IF i > Len(coll) THEN 0
    ELSE IF coll[i]._id = id THEN i
    ELSE IndexOf(coll, id, i + 1)

FindById(coll, id) == IndexOf(coll, id, 1)

\* a removal that takes the first document, whichever was asked for
Remove_First(coll, i) == Tail(coll)

\* the collection without its i-th document
Remove(coll, i) == SubSeq(coll, 1, i - 1) \o SubSeq(coll, i + 1, Len(coll))

\* a cast that reads the day in a zone five hours behind UTC
DateCast_Local(day) == day * 24 + 5

\* the cast of a date-only string "YYYY-MM-DD" (written as its day number)
\* to a Date: midnight UTC of that day, in hours since the epoch
DateCast(day) == day * 24

\* new Task(body): setters (trim), casts and defaults applied
TaskDocument(body, id, t) ==
    [_id |-> id,
     title |-> IF Has(body, "title") THEN Trim(body.title) ELSE << >>,
     description |-> IF Has(body, "description") THEN Trim(body.description) ELSE << >>,
     status |-> IF Has(body, "status") THEN body.status ELSE "To Do",
     priority |-> IF Has(body, "priority") THEN body.priority ELSE "Medium",
     dueDate |-> IF Has(body, "dueDate") THEN DateCast(body.dueDate) ELSE NoDate,
     employeeId |-> IF Has(body, "employeeId") THEN body.employeeId ELSE "",
     createdAt |-> t]

\* TaskSchema's validators on the paths of a document, in schema order
TaskValidationMessages(doc, paths) ==
    (IF "title" \in paths /\ doc.title = << >> THEN <<"Please add a title">>
     ELSE IF "title" \in paths /\ Len(doc.title) > TitleMaxLength
          THEN <<"Title cannot be more than 100 characters">> ELSE << >>)
    \o (IF "description" \in paths /\ Len(doc.description) > DescriptionMaxLength
        THEN <<"Description cannot be more than 500 characters">> ELSE << >>)
    \o (IF "status" \in paths /\ doc.status # Null /\ doc.status \notin Statuses
        THEN <<doc.status \o " is not a valid enum value for path status.">> ELSE << >>)
    \o (IF "priority" \in paths /\ doc.priority # Null /\ doc.priority \notin Priorities
        THEN <<doc.priority \o " is not a valid enum value for path priority.">> ELSE << >>)
    \o (IF "employeeId" \in paths /\ doc.employeeId = ""
        THEN <<"Path employeeId is required.">> ELSE << >>)

TaskPaths == {"title", "description", "status", "priority", "dueDate", "employeeId"}

\* findByIdAndUpdate's $set of the body's paths, setters (trim) applied
ApplyUpdate(task, body) ==
    [f \in DOMAIN task |->
        IF f \in DOMAIN body
        THEN IF f \in {"title", "description", "name"} THEN Trim(body[f])
             ELSE IF f = "dueDate" THEN DateCast(body[f])
             ELSE body[f]
        ELSE task[f]]

\* ObjectId.prototype.toString: the id's hex string, which is how ids are written here
ObjectIdToString(id) == id

\* Document.prototype.toString of a populated employeeId: the inspected document
DocumentToString(id) == "{ _id: new ObjectId('" \o id \o "'), ... }"

\* populate({path: 'employeeId', select: 'name department'}); null when no such user
NullDoc == [_id |-> "", name |-> << >>, department |-> << >>]
Populate(id) ==
    IF id \in DOMAIN users
    THEN [_id |-> id, name |-> users[id].name, department |-> users[id].department]
    ELSE NullDoc

\* Ids are written "t1", "u2", "d1" for 24-digit hexadecimal strings; the words
\* of the request paths are no such strings, and a query by one is a CastError
PathWords == {"export", "export-pdf", "employee"}
CastsToObjectId(id) == id \notin PathWords

\* the policy check of updateTask and deleteTask (and of getTask, on what it compares)
IsAdminOrSame(user, idString) ==
    users[user].role = "admin" \/ user = idString

\* ------------------------------------------------------ controllers/tasks
GetTasksController(user) ==
    IF \E i \in 1..Len(tasks) : Populate(tasks[i].employeeId) = NullDoc
    THEN errorHandler(TypeError)
    ELSE Ok(200, [i \in 1..Len(tasks) |->
                    [_id |-> tasks[i]._id, title |-> tasks[i].title,
                     description |-> tasks[i].description, status |-> tasks[i].status,
                     priority |-> tasks[i].priority, dueDate |-> tasks[i].dueDate,
                     createdAt |-> tasks[i].createdAt,
                     employee |-> Populate(tasks[i].employeeId)]])

\* the roles routes/tasks.js passes to authorize for GET / and GET /export
TaskListRoles == {"admin"}
ExportRoles == {"admin"}

GetTasks(hdr) ==
    /\ last' = Request("getTasks", hdr, NoArg, Route(hdr, TaskListRoles, GetTasksController))
    /\ UNCHANGED <<client, users, pending, tasks, nextTaskId, departments, nextDeptId, now>>

TasksOfEmployee_Unfiltered(id) == tasks

\* Task.find({ employeeId: req.params.id })
TasksOfEmployee(id) == SelectSeq(tasks, LAMBDA t : t.employeeId = id)

GetEmployeeTasksResponse(user, id) ==
    IF FindUserById(id) = NullUser
    THEN errorHandler(ErrorResponse("No user with the id of " \o id, 404))
    ELSE IF ~IsAdminOrSame(user, id)
    THEN errorHandler(ErrorResponse("Not authorized to access these tasks", 401))
    ELSE Ok(200, TasksOfEmployee(id))

GetEmployeeTasks(hdr, id) ==
    LET controller(user) == GetEmployeeTasksResponse(user, id)
    IN  /\ last' = Request("getEmployeeTasks", hdr, [id |-> id], Route(hdr, {}, controller))
        /\ UNCHANGED <<client, users, pending, tasks, nextTaskId, departments, nextDeptId, now>>

\* what getTask compares req.user.id with: task.employeeId.toString() after populate
GetTaskOwnerString(task) == DocumentToString(task.employeeId)

GetTaskResponse(user, id) ==
    LET i == FindById(tasks, id)
    IN  IF ~CastsToObjectId(id) THEN errorHandler(CastError)
        ELSE IF i = 0
        THEN errorHandler(ErrorResponse("No task with the id of " \o id, 404))
        ELSE IF users[user].role # "admin" /\ Populate(tasks[i].employeeId) = NullDoc
        THEN errorHandler(TypeError)
        ELSE IF ~IsAdminOrSame(user, GetTaskOwnerString(tasks[i]))
        THEN errorHandler(ErrorResponse("Not authorized to access this task", 401))
        ELSE Ok(200, [tasks[i] EXCEPT !.employeeId = Populate(tasks[i].employeeId)])

GetTask(hdr, id) ==
    LET controller(user) == GetTaskResponse(user, id)
    IN  /\ last' = Request("getTask", hdr, [id |-> id], Route(hdr, {}, controller))
        /\ UNCHANGED <<client, users, pending, tasks, nextTaskId, departments, nextDeptId, now>>

\* req.body.employeeId = req.body.employeeId || req.user.id
WithEmployeeId(body, user) ==
    IF Has(body, "employeeId") /\ body.employeeId # ""
    THEN body
    ELSE [f \in DOMAIN body \cup {"employeeId"} |->
             IF f = "employeeId" THEN user ELSE body[f]]

MayCreateFor_NoCheck(user, employeeId) == TRUE

\* whether createTask lets this actor create a task for this employee
MayCreateFor(user, employeeId) == IsAdminOrSame(user, employeeId)

CreateTaskResponse(user, body) ==
    LET b == WithEmployeeId(body, user)
        doc == TaskDocument(b, ObjectId("t", nextTaskId + 1), now)
        msgs == TaskValidationMessages(doc, TaskPaths)
    IN  IF ~MayCreateFor(user, b.employeeId)
        THEN errorHandler(ErrorResponse("Not authorized to create tasks for other employees",
                                        401))
        ELSE IF msgs # << >> THEN errorHandler(ValidationError(msgs))
        ELSE Ok(201, doc)

CreateTask(hdr, body) ==
    LET controller(user) == CreateTaskResponse(user, body)
        res == Route(hdr, {}, controller)
    IN  /\ last' = Request("createTask", hdr, body, res)
        /\ IF res.status = 201
           THEN /\ nextTaskId < MaxTaskIds
                /\ tasks' = Append(tasks, res.body)
                /\ nextTaskId' = nextTaskId + 1
           ELSE UNCHANGED <<tasks, nextTaskId>>
        /\ UNCHANGED <<client, users, pending, departments, nextDeptId, now>>

MayModify_NoCheck(user, task) == TRUE

\* whether updateTask's and deleteTask's check lets this actor at the task
MayModify(user, task) == IsAdminOrSame(user, ObjectIdToString(task.employeeId))

UpdateTaskResponse(user, id, body) ==
    LET i == FindById(tasks, id)
    IN  IF i = 0
        THEN errorHandler(ErrorResponse("No task with the id of " \o id, 404))
        ELSE IF ~MayModify(user, tasks[i])
        THEN errorHandler(ErrorResponse("Not authorized to update this task", 401))
        ELSE LET doc == ApplyUpdate(tasks[i], body)
                 msgs == TaskValidationMessages(doc, DOMAIN body)
             IN  IF msgs # << >> THEN errorHandler(ValidationError(msgs))
                 ELSE Ok(200, doc)

UpdateTask(hdr, id, body) ==
    LET controller(user) == UpdateTaskResponse(user, id, body)
        res == Route(hdr, {}, controller)
    IN  /\ last' = Request("updateTask", hdr, [id |-> id, body |-> body], res)
        /\ tasks' = IF res.status = 200
                    THEN [tasks EXCEPT ![FindById(tasks, id)] = res.body]
                    ELSE tasks
        /\ UNCHANGED <<client, users, pending, nextTaskId, departments, nextDeptId, now>>

DeleteTaskResponse(user, id) ==
    LET i == FindById(tasks, id)
    IN  IF i = 0
        THEN errorHandler(ErrorResponse("No task with the id of " \o id, 404))
        ELSE IF ~MayModify(user, tasks[i])
        THEN errorHandler(ErrorResponse("Not authorized to delete this task", 401))
        ELSE Ok(200, [success |-> TRUE, data |-> NoArg])

DeleteTask(hdr, id) ==
    LET controller(user) == DeleteTaskResponse(user, id)
        res == Route(hdr, {}, controller)
    IN  /\ last' = Request("deleteTask", hdr, [id |-> id], res)
        /\ tasks' = IF res.status = 200 THEN Remove(tasks, FindById(tasks, id)) ELSE tasks
        /\ UNCHANGED <<client, users, pending, nextTaskId, departments, nextDeptId, now>>

\* ------------------------------ controllers/tasks, from await to await
\* A request under way: the operation and its arguments, where its handler
\* stands (sent: not yet begun; found: past findById and the check; done:
\* answered), the document findById returned, the response, and for a request
\* of a dashboard the tasks its handler closed over.
Slots == 1..MaxInFlight
NullTask == [_id |-> ""]
NoResponse == Ok(0, NoArg)
Idle == [pc |-> "idle"]
Sent(op, hdr, id, body, closure) ==
    [pc |-> "sent", op |-> op, hdr |-> hdr, id |-> id, body |-> body, found |-> NullTask,
     res |-> NoResponse, closure |-> closure]

Answered(r, res) == [r EXCEPT !.pc = "done", !.res = res]

\* a request reaches the server
Arrive(slot, op, hdr, id, body) ==
    /\ inflight[slot] = Idle
    /\ inflight' = [inflight EXCEPT ![slot] = Sent(op, hdr, id, body, << >>)]
    /\ UNCHANGED <<users, pending, tasks, nextTaskId, departments, nextDeptId, now, last,
                   browser, employeeDashboard, adminDashboard, dateRangePicker>>

\* protect, findById and the ownership check of updateTask and deleteTask:
\* the error they answer with, or the document found (status 0: no answer yet)
FindAndCheck(user, id, verb) ==
    LET i == FindById(tasks, id)
    IN  IF i = 0
        THEN errorHandler(ErrorResponse("No task with the id of " \o id, 404))
        ELSE IF ~MayModify(user, tasks[i])
        THEN errorHandler(ErrorResponse("Not authorized to " \o verb \o " this task", 401))
        ELSE Ok(0, tasks[i])

FindStep(slot, op, verb) ==
    LET r == inflight[slot]
        controller(user) == FindAndCheck(user, r.id, verb)
        res == Route(r.hdr, {}, controller)
    IN  /\ r.pc = "sent"
        /\ r.op = op
        /\ inflight' = [inflight EXCEPT ![slot] =
                           IF res.status = 0
                           THEN [r EXCEPT !.pc = "found", !.found = res.body]
                           ELSE Answered(r, res)]
        /\ UNCHANGED <<users, pending, tasks, nextTaskId, departments, nextDeptId, now, last,
                       browser, employeeDashboard, adminDashboard, dateRangePicker>>

\* updateTask up to its second await
UpdateTaskFind(slot) == FindStep(slot, "updateTask", "update")

\* a write of the patch onto the document that was read
WrittenTask_OntoRead(stored, found, body) == ApplyUpdate(found, body)

\* what findByIdAndUpdate stores: the patch on the document as it is stored
WrittenTask(stored, found, body) == ApplyUpdate(stored, body)

\* updateTask from findByIdAndUpdate to the response: the update validators
\* run on the patch, then the store finds and writes the document in one
\* operation, and answers null when there is none
UpdateTaskWrite(slot) ==
    LET r == inflight[slot]
        i == FindById(tasks, r.id)
        msgs == TaskValidationMessages(ApplyUpdate(r.found, r.body), DOMAIN r.body)
        task == IF i = 0 THEN NullTask ELSE WrittenTask(tasks[i], r.found, r.body)
    IN  /\ r.pc = "found"
        /\ r.op = "updateTask"
        /\ IF msgs # << >>
           THEN /\ inflight' = [inflight EXCEPT ![slot] =
                                   Answered(r, errorHandler(ValidationError(msgs)))]
                /\ UNCHANGED tasks
           ELSE /\ inflight' = [inflight EXCEPT ![slot] = Answered(r, Ok(200, task))]
                /\ tasks' = IF i = 0 THEN tasks ELSE [tasks EXCEPT ![i] = task]
        /\ UNCHANGED <<users, pending, nextTaskId, departments, nextDeptId, now, last,
                       browser, employeeDashboard, adminDashboard, dateRangePicker>>

\* deleteTask up to its second await
DeleteTaskFind(slot) == FindStep(slot, "deleteTask", "delete")

\* deleteTask from task.deleteOne() to the response; deleting a document
\* that is gone deletes nothing
DeleteTaskRemove(slot) ==
    LET r == inflight[slot]
        i == FindById(tasks, r.id)
    IN  /\ r.pc = "found"
        /\ r.op = "deleteTask"
        /\ inflight' = [inflight EXCEPT ![slot] =
                           Answered(r, Ok(200, [success |-> TRUE, data |-> NoArg]))]
        /\ tasks' = IF i = 0 THEN tasks ELSE Remove(tasks, i)
        /\ UNCHANGED <<users, pending, nextTaskId, departments, nextDeptId, now, last,
                       browser, employeeDashboard, adminDashboard, dateRangePicker>>

\* createTask, whose one await is Task.create
CreateTaskServe(slot) ==
    LET r == inflight[slot]
        controller(user) == CreateTaskResponse(user, r.body)
        res == Route(r.hdr, {}, controller)
    IN  /\ r.pc = "sent"
        /\ r.op = "createTask"
        /\ inflight' = [inflight EXCEPT ![slot] = Answered(r, res)]
        /\ IF res.status = 201
           THEN /\ nextTaskId < MaxTaskIds
                /\ tasks' = Append(tasks, res.body)
                /\ nextTaskId' = nextTaskId + 1
           ELSE UNCHANGED <<tasks, nextTaskId>>
        /\ UNCHANGED <<users, pending, departments, nextDeptId, now, last,
                       browser, employeeDashboard, adminDashboard, dateRangePicker>>

\* the response has left the server for a client that is no dashboard
Respond(slot) ==
    /\ inflight[slot].pc = "done"
    /\ inflight' = [inflight EXCEPT ![slot] = Idle]
    /\ UNCHANGED <<users, pending, tasks, nextTaskId, departments, nextDeptId, now, last,
                   browser, employeeDashboard, adminDashboard, dateRangePicker>>

\* exportTasks
AllDepartments == <<"a", "l", "l">>
NoDateSet == "No date set"
\* the calendar day of an instant (hours since the epoch) on a host at UTC
ToLocaleDateString(t) == "day " \o ToString(t \div 24)

ExportHeader ==
    <<"Task ID", "Title", "Description", "Status", "Priority", "Due Date", "Employee",
      "Department", "Created At">>

\* the tasks Task.find(query) returns for the department parameter
ExportQuery(department) ==
    IF department # << >> /\ department # AllDepartments
    THEN SelectSeq(tasks, LAMBDA t :
             t.employeeId \in {u \in DOMAIN users : users[u].department = department})
    ELSE tasks

ExportRow(task) ==
    [id |-> task._id, title |-> task.title, description |-> task.description,
     status |-> task.status, priority |-> task.priority,
     dueDate |-> IF task.dueDate # NoDate THEN ToLocaleDateString(task.dueDate)
                 ELSE NoDateSet,
     employee |-> Populate(task.employeeId).name,
     department |-> Populate(task.employeeId).department,
     createdAt |-> ToLocaleDateString(task.createdAt)]

\* an export that keeps the tasks due within the dates of the request
ExportTasksResponse_DateFiltered(user, query) ==
    LET found == SelectSeq(ExportQuery(query.department), LAMBDA t :
                     /\ query.startDate # 0 => (t.dueDate # NoDate /\ t.dueDate >= query.startDate * 24)
                     /\ query.endDate # 0 => (t.dueDate # NoDate /\ t.dueDate <= query.endDate * 24))
    IN  Ok(200, [contentType |->
                   "application/vnd.openxmlformats-officedocument.spreadsheetml.sheet",
                 header |-> ExportHeader,
                 rows |-> [i \in 1..Len(found) |-> ExportRow(found[i])]])

ExportTasksResponse(user, query) ==
    LET found == ExportQuery(query.department)
    IN  IF users[user].role # "admin"
        THEN errorHandler(ErrorResponse("Not authorized to export tasks", 401))
        ELSE IF \E i \in 1..Len(found) : Populate(found[i].employeeId) = NullDoc
        THEN errorHandler(TypeError)
        ELSE Ok(200, [contentType |->
                        "application/vnd.openxmlformats-officedocument.spreadsheetml.sheet",
                      header |-> ExportHeader,
                      rows |-> [i \in 1..Len(found) |-> ExportRow(found[i])]])

ExportTasks(hdr, query) ==
    LET controller(user) == ExportTasksResponse(user, query)
    IN  /\ last' = Request("exportTasks", hdr, query, Route(hdr, ExportRoles, controller))
        /\ UNCHANGED <<client, users, pending, tasks, nextTaskId, departments, nextDeptId, now>>

\* routes/tasks.js, the GET routes in the order they are registered: the path
\* below /api/tasks is a sequence of segments, the answer the operation that
\* handles it with its argument and its response
TasksRouterGet(hdr, path, query) ==
    LET exportTasks(user) == ExportTasksResponse(user, query)
        getEmployeeTasks(user) == GetEmployeeTasksResponse(user, path[2])
        getTask(user) == GetTaskResponse(user, path[1])
    IN  IF path = << >>
        THEN [op |-> "getTasks", arg |-> NoArg,
              res |-> Route(hdr, TaskListRoles, GetTasksController)]
        ELSE IF path = <<"export">>
        THEN [op |-> "exportTasks", arg |-> query,
              res |-> Route(hdr, ExportRoles, exportTasks)]
        ELSE IF Len(path) = 2 /\ path[1] = "employee"
        THEN [op |-> "getEmployeeTasks", arg |-> [id |-> path[2]],
              res |-> Route(hdr, {}, getEmployeeTasks)]
        ELSE IF Len(path) = 1
        THEN [op |-> "getTask", arg |-> [id |-> path[1]], res |-> Route(hdr, {}, getTask)]
        ELSE [op |-> "none", arg |-> NoArg,
              res |-> ErrorJson(404, <<"Cannot GET">>)]

\* ------------------------------------------------ controllers/departments
DepartmentNameMaxLength == 50
DepartmentDescriptionMaxLength == 200

DepartmentDocument(body, id, t) ==
    [_id |-> id,
     name |-> IF Has(body, "name") THEN Trim(body.name) ELSE << >>,
     description |-> IF Has(body, "description") THEN Trim(body.description) ELSE << >>,
     createdAt |-> t]

DepartmentValidationMessages(doc, paths) ==
    (IF "name" \in paths /\ doc.name = << >> THEN <<"Please add a department name">>
     ELSE IF "name" \in paths /\ Len(doc.name) > DepartmentNameMaxLength
          THEN <<"Department name cannot be more than 50 characters">> ELSE << >>)
    \o (IF "description" \in paths /\ Len(doc.description) > DepartmentDescriptionMaxLength
        THEN <<"Description cannot be more than 200 characters">> ELSE << >>)

\* whether the unique index on name refuses this document
NameIndexRefuses(doc) ==
    \E i \in 1..Len(departments) :
        departments[i]._id # doc._id /\ departments[i].name = doc.name

GetDepartmentsController(user) == Ok(200, departments)

GetDepartments(hdr) ==
    /\ last' = Request("getDepartments", hdr, NoArg, Route(hdr, {}, GetDepartmentsController))
    /\ UNCHANGED <<client, users, pending, tasks, nextTaskId, departments, nextDeptId, now>>

GetDepartmentResponse(user, id) ==
    IF FindById(departments, id) = 0
    THEN errorHandler(ErrorResponse("No department with the id of " \o id, 404))
    ELSE Ok(200, departments[FindById(departments, id)])

GetDepartment(hdr, id) ==
    LET controller(user) == GetDepartmentResponse(user, id)
    IN  /\ last' = Request("getDepartment", hdr, [id |-> id], Route(hdr, {}, controller))
        /\ UNCHANGED <<client, users, pending, tasks, nextTaskId, departments, nextDeptId, now>>

\* the roles the department write routes pass to authorize
DepartmentWriteRoles == {"admin"}

CreateDepartmentResponse(user, body) ==
    LET doc == DepartmentDocument(body, ObjectId("d", nextDeptId + 1), now)
        msgs == DepartmentValidationMessages(doc, {"name", "description"})
    IN  IF users[user].role # "admin"
        THEN errorHandler(ErrorResponse("Not authorized to create departments", 401))
        ELSE IF msgs # << >> THEN errorHandler(ValidationError(msgs))
        ELSE IF NameIndexRefuses(doc) THEN errorHandler(DuplicateKeyError)
        ELSE Ok(201, doc)

CreateDepartment(hdr, body) ==
    LET controller(user) == CreateDepartmentResponse(user, body)
        res == Route(hdr, DepartmentWriteRoles, controller)
    IN  /\ last' = Request("createDepartment", hdr, body, res)
        /\ IF res.status = 201
           THEN /\ nextDeptId < MaxDeptIds
                /\ departments' = Append(departments, res.body)
                /\ nextDeptId' = nextDeptId + 1
           ELSE UNCHANGED <<departments, nextDeptId>>
        /\ UNCHANGED <<client, users, pending, tasks, nextTaskId, now>>

UpdateDepartmentResponse(user, id, body) ==
    LET i == FindById(departments, id)
    IN  IF users[user].role # "admin"
        THEN errorHandler(ErrorResponse("Not authorized to update departments", 401))
        ELSE IF i = 0
        THEN errorHandler(ErrorResponse("No department with the id of " \o id, 404))
        ELSE LET doc == ApplyUpdate(departments[i], body)
                 msgs == DepartmentValidationMessages(doc, DOMAIN body)
             IN  IF msgs # << >> THEN errorHandler(ValidationError(msgs))
                 ELSE IF NameIndexRefuses(doc) THEN errorHandler(DuplicateKeyError)
                 ELSE Ok(200, doc)

UpdateDepartment(hdr, id, body) ==
    LET controller(user) == UpdateDepartmentResponse(user, id, body)
        res == Route(hdr, DepartmentWriteRoles, controller)
    IN  /\ last' = Request("updateDepartment", hdr, [id |-> id, body |-> body], res)
        /\ departments' = IF res.status = 200
                          THEN [departments EXCEPT ![FindById(departments, id)] = res.body]
                          ELSE departments
        /\ UNCHANGED <<client, users, pending, tasks, nextTaskId, nextDeptId, now>>

DeleteDepartmentResponse(user, id) ==
    IF users[user].role # "admin"
    THEN errorHandler(ErrorResponse("Not authorized to delete departments", 401))
    ELSE IF FindById(departments, id) = 0
    THEN errorHandler(ErrorResponse("No department with the id of " \o id, 404))
    ELSE Ok(200, [success |-> TRUE, data |-> NoArg])

DeleteDepartment(hdr, id) ==
    LET controller(user) == DeleteDepartmentResponse(user, id)
        res == Route(hdr, DepartmentWriteRoles, controller)
    IN  /\ last' = Request("deleteDepartment", hdr, [id |-> id], res)
        /\ departments' = IF res.status = 200
                          THEN Remove(departments, FindById(departments, id))
                          ELSE departments
        /\ UNCHANGED <<client, users, pending, tasks, nextTaskId, nextDeptId, now>>

\* ---------------------------------------------------------------- inputs
EmailAdmin == <<"a", "@", "x", ".", "c", "o">>
EmailJohn == <<"j", "@", "x", ".", "c", "o">>
EmailSarah == <<"s", "@", "x", ".", "c", "o">>
EmailNew == <<"n", "@", "x", ".", "c", "o">>
EmailMalformed == <<"n", "@", "x">>
SeedPassword == <<"p", "a", "s", "s", "1", "2", "3">>
GoodPassword == <<"s", "e", "c", "r", "e", "t">>
ShortPassword == <<"s", "e", "c", "r", "e">>
Engineering == <<"E", "n", "g">>
Marketing == <<"M", "k", "t">>
Management == <<"M", "g", "m", "t">>

ValidRegistration ==
    [name |-> <<"N", "e", "w">>, email |-> EmailNew, password |-> GoodPassword,
     role |-> NoRole, department |-> Engineering]

\* a valid body, and that body with one or two fields missing or wrong
RegisterBodies ==
    {ValidRegistration,
     [ValidRegistration EXCEPT !.role = "admin"],
     [ValidRegistration EXCEPT !.role = "employee"],
     [ValidRegistration EXCEPT !.role = "boss"],
     [ValidRegistration EXCEPT !.role = Null],
     [ValidRegistration EXCEPT !.email = EmailJohn],
     [ValidRegistration EXCEPT !.name = << >>],
     [ValidRegistration EXCEPT !.name = <<" ">>],
     [ValidRegistration EXCEPT !.email = << >>],
     [ValidRegistration EXCEPT !.email = EmailMalformed],
     [ValidRegistration EXCEPT !.password = << >>],
     [ValidRegistration EXCEPT !.password = ShortPassword],
     [ValidRegistration EXCEPT !.department = << >>],
     [ValidRegistration EXCEPT !.email = EmailJohn, !.password = ShortPassword],
     [ValidRegistration EXCEPT !.email = << >>, !.password = << >>]}

LoginBodies ==
    [email : {<< >>, EmailJohn, EmailNew, EmailMalformed},
     password : {<< >>, SeedPassword, GoodPassword}]

\* the tokens getSignedJwtToken has been able to sign so far: a user may log
\* in at any time from the creation of the account on
SignedTokens ==
    {getSignedJwtToken(users[u], t) : u \in {"u1", "u2"}, t \in 0..now}

\* a token of the employee, the role rewritten, signed with another key
ForgedToken == [id |-> "u2", role |-> "admin", exp |-> now + JWT_EXPIRE, sig |-> "forged"]

FreshToken == getSignedJwtToken(users["u2"], now)

\* one fresh session per user
SessionHeaders == {Bearer(getSignedJwtToken(users[u], now)) : u \in DOMAIN users}

\* every shape of Authorization header protect tells apart
AllHeaders ==
    {NoHeader, BearerOnly, BasicHeader, Bearer(MalformedToken), Bearer(ForgedToken),
     <<"Basic", FreshToken>>, <<"Bearerx", FreshToken>>}
    \cup {Bearer(t) : t \in SignedTokens}

Fix == <<"f", "i", "x">>
Bug == <<"b", "u", "g">>

\* ids a request may name: those handed out, and one never handed out
TaskIdInputs == {ObjectId("t", n) : n \in 1..(MaxTaskIds + 1)}
DeptIdInputs == {ObjectId("d", n) : n \in 1..(MaxDeptIds + 1)}
UserIdInputs == {"u2", "u3", "u9"}

CreateBodies ==
    {[title |-> Fix],
     [title |-> <<" ">> \o Fix, employeeId |-> "u2", dueDate |-> 2],
     [title |-> Fix, employeeId |-> "u3"],
     [title |-> Fix, employeeId |-> "u9"],
     [title |-> Fix, status |-> Null],
     [title |-> <<" ">>]}

UpdateBodies ==
    {[status |-> "Review"],
     [status |-> "Bogus"],
     [employeeId |-> "u3"]}

\* the bodies an administrator posts for the two employees
AdminCreateBodies == {[title |-> Fix, employeeId |-> "u2"], [title |-> Bug, employeeId |-> "u3"]}

ExportQueries == [department : {<< >>, AllDepartments, Engineering}]

DepartmentBodies ==
    {[name |-> Engineering],
     [name |-> Marketing, description |-> <<"a", "d", "s">>],
     [name |-> << >>]}

\* ------------------------------------------------------- client: dates
\* Instants are hours since the epoch; a date string "YYYY-MM-DD" is written
\* as its day number, the empty string and null as NoDay.
NoDay == 0

\* new Date("YYYY-MM-DD"): a date-only string is read as midnight UTC
NewDate(day) == day * 24

\* Date.prototype.setHours(0, 0, 0, 0): the start of the instant's day in the
\* browser's zone (zone: hours ahead of UTC)
setHoursZero(t, zone) == ((t + zone) \div 24) * 24 - zone

\* ------------------------------------------- client: EmployeeDashboard
QuickFilters == {"all", "todo", "inprogress", "review", "done", "urgent", "high", "overdue"}

\* the overdue case of filteredTasks, with no normalisation to midnight
Overdue_Unnormalised(task, clock, zone) ==
    IF task.dueDate = NoDate THEN FALSE
    ELSE task.dueDate < clock /\ task.status # "Done"

\* the predicate of the overdue case of filteredTasks
Overdue(task, clock, zone) ==
    IF task.dueDate = NoDate THEN FALSE
    ELSE /\ setHoursZero(task.dueDate, zone) < setHoursZero(clock, zone)
         /\ task.status # "Done"

\* EmployeeDashboard.filteredTasks: the switch on filter
EmployeeFilteredTasks(ts, filter, clock, zone) ==
    IF filter = "todo" THEN SelectSeq(ts, LAMBDA t : t.status = "To Do")
    ELSE IF filter = "inprogress" THEN SelectSeq(ts, LAMBDA t : t.status = "In Progress")
    ELSE IF filter = "review" THEN SelectSeq(ts, LAMBDA t : t.status = "Review")
    ELSE IF filter = "done" THEN SelectSeq(ts, LAMBDA t : t.status = "Done")
    ELSE IF filter = "urgent" THEN SelectSeq(ts, LAMBDA t : t.priority = "Urgent")
    ELSE IF filter = "high" THEN SelectSeq(ts, LAMBDA t : t.priority = "High")
    ELSE IF filter = "overdue" THEN SelectSeq(ts, LAMBDA t : Overdue(t, clock, zone))
    ELSE ts

\* what the employee's task list shows
EmployeeShown ==
    EmployeeFilteredTasks(employeeDashboard.tasks, employeeDashboard.filter,
                          browser.clock, browser.zone)

\* setFilter of EmployeeDashboard
EmployeeSetFilter(filter) ==
    /\ employeeDashboard' = [employeeDashboard EXCEPT !.filter = filter]
    /\ UNCHANGED <<server, browser, adminDashboard, dateRangePicker>>

\* six hours pass in the browser
ClockTick ==
    /\ browser.clock < MaxClock
    /\ browser' = [browser EXCEPT !.clock = @ + 6]
    /\ UNCHANGED <<server, employeeDashboard, adminDashboard, dateRangePicker>>

\* ---------------------------------------------- client: AdminDashboard
Uppercase == <<"A", "B", "C", "D", "E", "F", "G", "H", "I", "J", "K", "L", "M",
               "N", "O", "P", "Q", "R", "S", "T", "U", "V", "W", "X", "Y", "Z">>
Lowercase == <<"a", "b", "c", "d", "e", "f", "g", "h", "i", "j", "k", "l", "m",
               "n", "o", "p", "q", "r", "s", "t", "u", "v", "w", "x", "y", "z">>

\* String.prototype.toLowerCase
toLowerCase(s) ==
    [i \in 1..Len(s) |->
        IF \E k \in 1..26 : Uppercase[k] = s[i]
        THEN Lowercase[CHOOSE k \in 1..26 : Uppercase[k] = s[i]]
        ELSE s[i]]

\* String.prototype.includes
includes(text, term) ==
    \E i \in 0..(Len(text) - Len(term)) : SubSeq(text, i + 1, i + Len(term)) = term

\* the department stage of filteredTasks
DepartmentStage(ts, selectedDepartment) ==
    IF selectedDepartment = AllDepartments THEN ts
    ELSE SelectSeq(ts, LAMBDA t : t.employee.department = selectedDepartment)

\* null, the dateRange of a picker with both dates empty
NoDateRange == [startDate |-> NoDay, endDate |-> NoDay]

\* the predicate of the date-range stage for one task
InDateRange(task, dateRange, zone) ==
    IF task.dueDate = NoDate THEN FALSE
    ELSE LET taskDate == setHoursZero(task.dueDate, zone)
             isAfterStart ==
                 IF dateRange.startDate # NoDay
                 THEN taskDate >= setHoursZero(NewDate(dateRange.startDate), zone)
                 ELSE TRUE
             isBeforeEnd ==
                 IF dateRange.endDate # NoDay
                 THEN taskDate <= setHoursZero(NewDate(dateRange.endDate), zone)
                 ELSE TRUE
         IN  isAfterStart /\ isBeforeEnd

\* the date-range stage of filteredTasks
DateRangeStage(ts, dateRange, zone) ==
    IF dateRange = NoDateRange THEN ts
    ELSE SelectSeq(ts, LAMBDA t : InDateRange(t, dateRange, zone))

\* a search stage that lowers the term but not the text it is sought in
SearchStage_CaseSensitive(ts, searchTerm) ==
    IF Trim(searchTerm) = << >> THEN ts
    ELSE LET term == toLowerCase(searchTerm)
         IN  SelectSeq(ts, LAMBDA t :
                 \/ includes(t.title, term)
                 \/ t.description # << >> /\ includes(t.description, term)
                 \/ includes(t.employee.name, term))

\* a search stage that keeps the first match only
SearchStage_FirstMatch(ts, searchTerm) ==
    IF Trim(searchTerm) = << >> THEN ts
    ELSE LET term == toLowerCase(searchTerm)
             hits == SelectSeq(ts, LAMBDA t : includes(toLowerCase(t.title), term))
         IN  IF hits = << >> THEN << >> ELSE <<Head(hits)>>

\* the search stage of filteredTasks
SearchStage(ts, searchTerm) ==
    IF Trim(searchTerm) = << >> THEN ts
    ELSE LET term == toLowerCase(searchTerm)
         IN  SelectSeq(ts, LAMBDA t :
                 \/ includes(toLowerCase(t.title), term)
                 \/ t.description # << >> /\ includes(toLowerCase(t.description), term)
                 \/ includes(toLowerCase(t.employee.name), term))

\* AdminDashboard.filteredTasks: department, then date range, then search;
\* the filter state is read by no stage
AdminFilteredTasks(ts, selectedDepartment, dateRange, searchTerm, zone) ==
    SearchStage(DateRangeStage(DepartmentStage(ts, selectedDepartment), dateRange, zone),
                searchTerm)

\* what the administrator's task list shows
AdminShown ==
    AdminFilteredTasks(adminDashboard.tasks, adminDashboard.selectedDepartment,
                       adminDashboard.dateRange, adminDashboard.searchTerm, browser.zone)

\* whether a list is in descending order of createdAt
NewestFirst(ts) == \A i \in 1..(Len(ts) - 1) : ts[i].createdAt >= ts[i + 1].createdAt

\* a fetch that stores the response as it came
sortedTasks_Unsorted(data) == data

\* the task put into an already sorted list where the comparator
\* new Date(b.createdAt) - new Date(a.createdAt) places it, after its equals
RECURSIVE InsertNewestFirst(_, _)
InsertNewestFirst(sorted, task) ==
    IF sorted = << >> THEN <<task>>
    ELSE IF Head(sorted).createdAt >= task.createdAt
         THEN <<Head(sorted)>> \o InsertNewestFirst(Tail(sorted), task)
         ELSE <<task>> \o sorted

\* Array.prototype.sort with that comparator: a stable sort, newest first
RECURSIVE SortNewestFirst(_)
SortNewestFirst(data) ==
    IF data = << >> THEN << >>
    ELSE InsertNewestFirst(SortNewestFirst(SubSeq(data, 1, Len(data) - 1)),
                           data[Len(data)])

\* sortedTasks of fetchTasksAndDepartments
sortedTasks(data) == SortNewestFirst(data)

\* setSelectedDepartment, from DepartmentFilter
SelectDepartment(department) ==
    /\ adminDashboard' = [adminDashboard EXCEPT !.selectedDepartment = department]
    /\ UNCHANGED <<server, browser, employeeDashboard, dateRangePicker>>

\* setSearchTerm, from the search input
SetSearchTerm(term) ==
    /\ adminDashboard' = [adminDashboard EXCEPT !.searchTerm = term]
    /\ UNCHANGED <<server, browser, employeeDashboard, dateRangePicker>>

\* setFilter of AdminDashboard
AdminSetFilter(filter) ==
    /\ adminDashboard' = [adminDashboard EXCEPT !.filter = filter]
    /\ UNCHANGED <<server, browser, employeeDashboard, dateRangePicker>>

\* what DateRangePicker passes to onDateChange for its two dates
OnDateChange(startDate, endDate) ==
    IF endDate # NoDay /\ startDate # NoDay
    THEN [startDate |-> startDate, endDate |-> endDate]
    ELSE IF startDate # NoDay THEN [startDate |-> startDate, endDate |-> NoDay]
    ELSE IF endDate # NoDay THEN [startDate |-> NoDay, endDate |-> endDate]
    ELSE NoDateRange

\* DateRangePicker.handleStartDateChange
HandleStartDateChange(newStartDate) ==
    /\ dateRangePicker' = [dateRangePicker EXCEPT !.startDate = newStartDate]
    /\ adminDashboard' =
           [adminDashboard EXCEPT
               !.dateRange = OnDateChange(newStartDate, dateRangePicker.endDate)]
    /\ UNCHANGED <<server, browser, employeeDashboard>>

\* DateRangePicker.handleEndDateChange
HandleEndDateChange(newEndDate) ==
    /\ dateRangePicker' = [dateRangePicker EXCEPT !.endDate = newEndDate]
    /\ adminDashboard' =
           [adminDashboard EXCEPT
               !.dateRange = OnDateChange(dateRangePicker.startDate, newEndDate)]
    /\ UNCHANGED <<server, browser, employeeDashboard>>

\* DateRangePicker.clearDates
ClearDates ==
    /\ dateRangePicker' = [startDate |-> NoDay, endDate |-> NoDay]
    /\ adminDashboard' = [adminDashboard EXCEPT !.dateRange = NoDateRange]
    /\ UNCHANGED <<server, browser, employeeDashboard>>

\* ------------------------------------------------- client: the export
ExportTypes == {"excel", "pdf"}

\* ExportModal.handleExport: the options handed to onExport; an empty date
\* input is NoDay, and the null date range is NoDateRange
ExportOptions(exportType, department, startDate, endDate) ==
    [type |-> exportType, department |-> department,
     dateRange |-> IF startDate # NoDay \/ endDate # NoDay
                   THEN [startDate |-> startDate, endDate |-> endDate]
                   ELSE NoDateRange]

\* the URLSearchParams of handleExport; a parameter that is not appended is
\* written as the empty string (department) or NoDay (the dates)
ExportParams(exportOptions) ==
    [department |-> IF exportOptions.department # AllDepartments
                    THEN exportOptions.department ELSE << >>,
     startDate |-> exportOptions.dateRange.startDate,
     endDate |-> exportOptions.dateRange.endDate]

\* the endpoint of handleExport, as the path below /api/tasks
ExportEndpoint(exportType) ==
    IF exportType = "excel" THEN <<"export">> ELSE <<"export-pdf">>

NoFile == [extension |-> "", contentType |-> "", data |-> NoArg]

\* what saveAs is given
ExportBlob(exportOptions, data) ==
    [extension |-> IF exportOptions.type = "excel" THEN "xlsx" ELSE "pdf",
     contentType |-> IF exportOptions.type = "excel"
                     THEN "application/vnd.openxmlformats-officedocument.spreadsheetml.sheet"
                     ELSE "application/pdf",
     data |-> data]

\* axios rejects a response whose status is not 2xx
AxiosResolves(res) == res.status \in 200..299
AxiosMessage(res) == "Request failed with status code " \o ToString(res.status)

\* AdminDashboard.handleExport, from the request to the saved file or the banner
HandleExport(exportOptions) ==
    LET hdr == Bearer(browser.user.token)
        r == TasksRouterGet(hdr, ExportEndpoint(exportOptions.type),
                            ExportParams(exportOptions))
    IN  /\ browser.path = "/admin-dashboard"
        /\ ~adminDashboard.loading
        /\ last' = Request(r.op, hdr, r.arg, r.res)
        /\ IF AxiosResolves(r.res)
           THEN /\ browser' = [browser EXCEPT !.saved = ExportBlob(exportOptions, r.res.body)]
                /\ UNCHANGED adminDashboard
           ELSE /\ adminDashboard' =
                     [adminDashboard EXCEPT
                         !.error = "Failed to export tasks: " \o AxiosMessage(r.res)]
                /\ UNCHANGED browser
        /\ UNCHANGED <<users, pending, tasks, nextTaskId, departments, nextDeptId, now,
                       employeeDashboard, dateRangePicker, inflight>>

\* ------------------------------------------------- client: the routes
\* AuthContext: nobody is logged in until login(data) sets the user to the
\* body of a login response; logout() clears it
NullSession == [id |-> "", role |-> ""]
isAuthenticated == browser.user # NullSession

\* what a route element comes to: a component to show, or <Navigate to>
Children(component) == [render |-> component, to |-> ""]
Navigate(to) == [render |-> "Navigate", to |-> to]

\* a guard that asks for a session and for no role
ProtectedRoute_AnyRole(user, authenticated, role, children) ==
    IF ~authenticated THEN Navigate("/login") ELSE Children(children)

ProtectedRoute(user, authenticated, role, children) ==
    IF ~authenticated THEN Navigate("/login")
    ELSE IF role # "" /\ user.role # role
    THEN Navigate(IF user.role = "admin" THEN "/admin-dashboard" ELSE "/employee-dashboard")
    ELSE Children(children)

Paths == {"/", "/login", "/register", "/employee-dashboard", "/admin-dashboard"}

\* the Routes of App
App(path) ==
    IF path = "/login" THEN Children("Login")
    ELSE IF path = "/register" THEN Children("Register")
    ELSE IF path = "/employee-dashboard"
    THEN ProtectedRoute(browser.user, isAuthenticated, "employee", "EmployeeDashboard")
    ELSE IF path = "/admin-dashboard"
    THEN ProtectedRoute(browser.user, isAuthenticated, "admin", "AdminDashboard")
    ELSE Navigate("/login")

Rendered == App(browser.path)

\* a path is entered in the address bar, or a link is followed
Visit(path) ==
    /\ browser' = [browser EXCEPT !.path = path]
    /\ UNCHANGED <<server, employeeDashboard, adminDashboard, dateRangePicker>>

\* a rendered <Navigate to> replaces the location
FollowNavigate ==
    /\ Rendered.render = "Navigate"
    /\ browser' = [browser EXCEPT !.path = Rendered.to]
    /\ UNCHANGED <<server, employeeDashboard, adminDashboard, dateRangePicker>>

\* Login.handleSubmit: the request, then login(response.data) and the
\* navigation by the role of the response, or the error message
LoginHandleSubmit(body) ==
    LET res == LoginResponse(body)
    IN  /\ Rendered.render = "Login"
        /\ last' = Request("login", NoHeader, body, res)
        /\ browser' =
               IF AxiosResolves(res)
               THEN [browser EXCEPT
                        !.user = res.body, !.loginError = << >>,
                        !.path = IF res.body.role = "admin" THEN "/admin-dashboard"
                                 ELSE "/employee-dashboard"]
               ELSE [browser EXCEPT !.loginError = res.body.message]
        /\ UNCHANGED <<users, pending, tasks, nextTaskId, departments, nextDeptId, now,
                       employeeDashboard, adminDashboard, dateRangePicker, inflight>>

\* Navbar.handleLogout, from the navbar of a dashboard
HandleLogout ==
    /\ Rendered.render \in {"EmployeeDashboard", "AdminDashboard"}
    /\ browser' = [browser EXCEPT !.user = NullSession, !.path = "/login"]
    /\ UNCHANGED <<server, employeeDashboard, adminDashboard, dateRangePicker>>

\* ------------------------------- client: the requests of the dashboards
\* a request that got no response
NetworkFailure == Ok(0, NoArg)

AuthorizationHeader == Bearer(browser.user.token)

\* the effect of EmployeeDashboard: GET /api/tasks/employee/:id, then
\* setTasks or setError; the dashboard shows Loading... until it is over
FetchTasks(reached) ==
    LET r == TasksRouterGet(AuthorizationHeader, <<"employee", browser.user.id>>, NoArg)
        res == IF reached THEN r.res ELSE NetworkFailure
    IN  /\ browser.path = "/employee-dashboard"
        /\ employeeDashboard.loading
        /\ last' = IF reached THEN Request(r.op, AuthorizationHeader, r.arg, r.res) ELSE last
        /\ employeeDashboard' =
               IF AxiosResolves(res)
               THEN [employeeDashboard EXCEPT !.tasks = res.body, !.loading = FALSE]
               ELSE [employeeDashboard EXCEPT !.error = "Failed to fetch tasks",
                                              !.loading = FALSE]
        /\ UNCHANGED <<users, pending, tasks, nextTaskId, departments, nextDeptId, now,
                       browser, adminDashboard, dateRangePicker, inflight>>

\* a handler of the rendered EmployeeDashboard sends its request; the
\* continuation after the await keeps the tasks of the render it was made in
EmployeeSend(slot, op, id, body) ==
    /\ browser.path = "/employee-dashboard"
    /\ ~employeeDashboard.loading
    /\ inflight[slot] = Idle
    /\ inflight' = [inflight EXCEPT ![slot] =
                       Sent(op, AuthorizationHeader, id, body, employeeDashboard.tasks)]
    /\ UNCHANGED <<users, pending, tasks, nextTaskId, departments, nextDeptId, now, last,
                   browser, employeeDashboard, adminDashboard, dateRangePicker>>

\* the ids of the tasks TaskList renders
ListedIds == {employeeDashboard.tasks[i]._id : i \in 1..Len(employeeDashboard.tasks)}

\* addTask, up to the await: { ...newTask, employeeId: user.id }
AddTask(slot, newTask) ==
    EmployeeSend(slot, "createTask", "",
                 [f \in DOMAIN newTask \cup {"employeeId"} |->
                     IF f = "employeeId" THEN browser.user.id ELSE newTask[f]])

\* updateTask of the dashboard, up to the await
EmployeeUpdateTask(slot, id, updatedTask) ==
    /\ id \in ListedIds
    /\ EmployeeSend(slot, "updateTask", id, updatedTask)

\* deleteTask of the dashboard, up to the await
EmployeeDeleteTask(slot, id) ==
    /\ id \in ListedIds
    /\ EmployeeSend(slot, "deleteTask", id, NoArg)

\* a request is lost on its way
NetworkError(slot) ==
    /\ inflight[slot].pc = "sent"
    /\ inflight' = [inflight EXCEPT ![slot] = Answered(inflight[slot], NetworkFailure)]
    /\ UNCHANGED <<users, pending, tasks, nextTaskId, departments, nextDeptId, now, last,
                   browser, employeeDashboard, adminDashboard, dateRangePicker>>

\* the tasks a handler sets from the tasks it closed over and the response
SetTasksAfter(op, closure, id, data) ==
    IF op = "createTask" THEN Append(closure, data)
    ELSE IF op = "updateTask"
    THEN [i \in 1..Len(closure) |-> IF closure[i]._id = id THEN data ELSE closure[i]]
    ELSE SelectSeq(closure, LAMBDA task : task._id # id)

\* a catch block that sets no banner
FailureBanner_None(op) == ""

\* the banner the catch block of the handler sets
FailureBanner(op) ==
    IF op = "createTask" THEN "Failed to add task"
    ELSE IF op = "updateTask" THEN "Failed to update task"
    ELSE "Failed to delete task"

\* addTask, updateTask and deleteTask of the dashboard after the await
EmployeeSettle(slot) ==
    LET r == inflight[slot]
    IN  /\ r.pc = "done"
        /\ employeeDashboard' =
               IF AxiosResolves(r.res)
               THEN [employeeDashboard EXCEPT
                        !.tasks = SetTasksAfter(r.op, r.closure, r.id, r.res.body)]
               ELSE [employeeDashboard EXCEPT !.error = FailureBanner(r.op)]
        /\ inflight' = [inflight EXCEPT ![slot] = Idle]
        /\ UNCHANGED <<users, pending, tasks, nextTaskId, departments, nextDeptId, now, last,
                       browser, adminDashboard, dateRangePicker>>

\* the effect of AdminDashboard: the tasks and the departments are fetched
\* together, then sorted and set, or the banner is set
FetchTasksAndDepartments(reached) ==
    LET tasksResponse == IF reached
                         THEN Route(AuthorizationHeader, TaskListRoles, GetTasksController)
                         ELSE NetworkFailure
        departmentsResponse == IF reached
                               THEN Route(AuthorizationHeader, {}, GetDepartmentsController)
                               ELSE NetworkFailure
    IN  /\ browser.path = "/admin-dashboard"
        /\ adminDashboard.loading
        /\ last' = IF reached
                   THEN Request("getDepartments", AuthorizationHeader, NoArg,
                                departmentsResponse)
                   ELSE last
        /\ adminDashboard' =
               IF AxiosResolves(tasksResponse) /\ AxiosResolves(departmentsResponse)
               THEN [adminDashboard EXCEPT !.tasks = sortedTasks(tasksResponse.body),
                                           !.departments = departmentsResponse.body,
                                           !.loading = FALSE]
               ELSE [adminDashboard EXCEPT !.error = "Failed to fetch data",
                                           !.loading = FALSE]
        /\ UNCHANGED <<users, pending, tasks, nextTaskId, departments, nextDeptId, now,
                       browser, employeeDashboard, dateRangePicker, inflight>>

\* ------------------------------------------------------------------ Init
\* the store after seed.js, abbreviated: the administrator and two employees
SeedUser(id, name, email, role, department) ==
    [_id |-> id, name |-> name, email |-> email,
     password |-> BcryptHash(SeedPassword, "salt1"), role |-> role,
     department |-> department, createdAt |-> 0]

SeedUsers ==
    [u \in {"u1", "u2", "u3"} |->
        IF u = "u1"
        THEN SeedUser("u1", <<"A", "d", "m">>, EmailAdmin, "admin", Management)
        ELSE IF u = "u2"
        THEN SeedUser("u2", <<"J", "o", "h", "n">>, EmailJohn, "employee", Engineering)
        ELSE SeedUser("u3", <<"S", "a", "r", "a", "h">>, EmailSarah, "employee", Marketing)]

InitServer ==
    /\ users = SeedUsers
    /\ pending = {}
    /\ tasks = << >>
    /\ nextTaskId = 0
    /\ departments = << >>
    /\ nextDeptId = 0
    /\ now = 0
    /\ last = NoRequest

\* the dashboards as mounted, before anything is fetched
NewEmployeeDashboard ==
    [tasks |-> << >>, loading |-> TRUE, error |-> "", filter |-> "all"]
NewAdminDashboard ==
    [tasks |-> << >>, departments |-> << >>, selectedDepartment |-> AllDepartments,
     loading |-> TRUE, error |-> "", filter |-> "all", searchTerm |-> << >>,
     dateRange |-> NoDateRange]

\* the AuthContext after login(data) with the login response of a stored user
SessionOf(u) == sendTokenResponse(users[u], 200, now).body

NoRequests == [slot \in Slots |-> Idle]

\* the browser as the application is opened
NewBrowser ==
    [clock |-> 44, zone |-> 0, user |-> NullSession, path |-> "/", loginError |-> << >>,
     saved |-> NoFile]
NewDateRangePicker == [startDate |-> NoDay, endDate |-> NoDay]

Init ==
    /\ InitServer
    /\ browser = NewBrowser
    /\ employeeDashboard = NewEmployeeDashboard
    /\ adminDashboard = NewAdminDashboard
    /\ dateRangePicker = NewDateRangePicker
    /\ inflight = NoRequests

\* ------------------------------------------------------- client inputs
\* zones five hours behind UTC, at UTC and five hours ahead
Zones == {-5, 0, 5}

\* sequences of at most MaxListed elements of a set
ListsOf(S) == UNION {[1..n -> S] : n \in 0..MaxListed}

\* a task as GET /api/tasks/employee/:id returns it, in what the filter reads
EmployeeTask(status, priority, dueDate) ==
    [title |-> Fix, status |-> status, priority |-> priority, dueDate |-> dueDate]

\* due at midnight UTC of days 1, 2, 3, at noon UTC of day 2, or never
EmployeeTaskInputs ==
    {EmployeeTask("To Do", "Medium", 24), EmployeeTask("To Do", "Urgent", 48),
     EmployeeTask("In Progress", "High", 60), EmployeeTask("Review", "Medium", 72),
     EmployeeTask("Done", "Medium", 24), EmployeeTask("Done", "High", NoDate),
     EmployeeTask("To Do", "Medium", NoDate), EmployeeTask("In Progress", "Medium", 48)}

\* the employee's dashboard after its fetch, in a browser of some zone
InitEmployeeDashboard ==
    /\ InitServer
    /\ browser \in {[NewBrowser EXCEPT !.zone = zone, !.user = SessionOf("u2"),
                                        !.path = "/employee-dashboard"] : zone \in Zones}
    /\ employeeDashboard \in
           {[NewEmployeeDashboard EXCEPT !.tasks = ts, !.loading = FALSE] : ts \in ListsOf(EmployeeTaskInputs)}
    /\ adminDashboard = NewAdminDashboard
    /\ dateRangePicker = NewDateRangePicker
    /\ inflight = NoRequests

John == <<"J", "o", "h", "n">>
Sarah == <<"S", "a", "r", "a", "h">>

\* a task as GET /api/tasks returns it, in what the filters and the sort read
AdminTask(title, description, status, dueDate, createdAt, name, department) ==
    [title |-> title, description |-> description, status |-> status,
     priority |-> "Medium", dueDate |-> dueDate, createdAt |-> createdAt,
     employee |-> [name |-> name, department |-> department]]

AdminTaskInputs ==
    {AdminTask(Fix, << >>, "To Do", 48, 3, John, Engineering),
     AdminTask(<<"B", "u", "g">>, << >>, "Done", 60, 2, John, Engineering),
     AdminTask(Fix, Bug, "To Do", NoDate, 2, Sarah, Marketing),
     AdminTask(Fix, << >>, "Done", 72, 1, Sarah, Marketing),
     AdminTask(<<"d", "e", "b", "u", "g">>, << >>, "To Do", 48, 1, Sarah, Marketing),
     AdminTask(Fix, << >>, "To Do", 24, 0, John, Engineering)}

\* the administrator's dashboard after its fetch, in a browser of some zone
InitAdminDashboard ==
    /\ InitServer
    /\ browser \in {[NewBrowser EXCEPT !.zone = zone, !.user = SessionOf("u1"),
                                        !.path = "/admin-dashboard"] : zone \in Zones}
    /\ employeeDashboard = NewEmployeeDashboard
    /\ adminDashboard \in
           {[NewAdminDashboard EXCEPT !.tasks = sortedTasks(data), !.loading = FALSE] :
               data \in ListsOf(AdminTaskInputs)}
    /\ dateRangePicker = NewDateRangePicker
    /\ inflight = NoRequests

DepartmentSelections == {AllDepartments, Engineering, Marketing}
SearchTerms == {<< >>, <<" ">>, Bug, <<"B", "U", "G">>, <<"j", "o">>}
DateInputs == {NoDay, 2, 3}
AdminQuickFilters == {"all", "done"}

\* ------------------------------------------------------- specifications
\* the authentication routes: /register, /login, /me
NextAuth ==
    \/ \E body \in RegisterBodies : RegisterValidate(body)
    \/ \E p \in pending : RegisterInsert(p)
    \/ \E body \in LoginBodies : Login(body)
    \/ \E hdr \in SessionHeaders : GetMe(hdr)

SpecAuth == Init /\ [][NextAuth]_vars

\* the task routes, each actor with a fresh session
Next ==
    \/ \E hdr \in SessionHeaders : GetTasks(hdr)
    \/ \E hdr \in SessionHeaders, id \in UserIdInputs : GetEmployeeTasks(hdr, id)
    \/ \E hdr \in SessionHeaders, id \in TaskIdInputs : GetTask(hdr, id)
    \/ \E hdr \in SessionHeaders, body \in CreateBodies : CreateTask(hdr, body)
    \/ \E hdr \in SessionHeaders, id \in TaskIdInputs, body \in UpdateBodies :
          UpdateTask(hdr, id, body)
    \/ \E hdr \in SessionHeaders, id \in TaskIdInputs : DeleteTask(hdr, id)

Spec == Init /\ [][Next]_vars

\* the administrator's routes: the task list, the export, the departments
NextAdmin ==
    \/ \E hdr \in SessionHeaders, body \in AdminCreateBodies : CreateTask(hdr, body)
    \/ \E hdr \in SessionHeaders : GetTasks(hdr)
    \/ \E hdr \in SessionHeaders, query \in ExportQueries : ExportTasks(hdr, query)
    \/ \E hdr \in SessionHeaders : GetDepartments(hdr)
    \/ \E hdr \in SessionHeaders, id \in DeptIdInputs : GetDepartment(hdr, id)
    \/ \E hdr \in SessionHeaders, body \in DepartmentBodies : CreateDepartment(hdr, body)
    \/ \E hdr \in SessionHeaders, id \in DeptIdInputs, body \in DepartmentBodies :
          UpdateDepartment(hdr, id, body)
    \/ \E hdr \in SessionHeaders, id \in DeptIdInputs : DeleteDepartment(hdr, id)

SpecAdmin == Init /\ [][NextAdmin]_vars

\* the administrator's export of a store that is written to meanwhile
ExportCreateBodies ==
    {[title |-> Fix, employeeId |-> "u2", dueDate |-> 2],
     [title |-> Bug, employeeId |-> "u3"],
     [title |-> Fix, employeeId |-> "u9"]}

ExportOptionInputs ==
    {ExportOptions(exportType, department, startDate, endDate) :
        exportType \in ExportTypes, department \in {AllDepartments, Engineering, Management},
        startDate \in {NoDay, 2}, endDate \in {NoDay, 3}}

InitExport ==
    /\ InitServer
    /\ browser = [NewBrowser EXCEPT !.user = SessionOf("u1"), !.path = "/admin-dashboard"]
    /\ employeeDashboard = NewEmployeeDashboard
    /\ adminDashboard = [NewAdminDashboard EXCEPT !.loading = FALSE]
    /\ dateRangePicker = NewDateRangePicker
    /\ inflight = NoRequests

NextExport ==
    \/ \E hdr \in SessionHeaders, body \in ExportCreateBodies : CreateTask(hdr, body)
    \/ \E hdr \in SessionHeaders, id \in TaskIdInputs : DeleteTask(hdr, id)
    \/ \E exportOptions \in ExportOptionInputs : HandleExport(exportOptions)

SpecExport == InitExport /\ [][NextExport]_vars

\* updates and deletes of the same tasks whose handlers interleave at their awaits
ConcurrentHeaders == {Bearer(getSignedJwtToken(users[u], now)) : u \in {"u1", "u2"}}
ConcurrentIds == {ObjectId("t", n) : n \in 1..MaxTaskIds}
ConcurrentPatches == {[status |-> "Review"], [status |-> "Done", priority |-> "High"]}

NextConcurrent ==
    \/ \E hdr \in ConcurrentHeaders : CreateTask(hdr, [title |-> Fix, employeeId |-> "u2"])
    \/ \E slot \in Slots, hdr \in ConcurrentHeaders, id \in ConcurrentIds,
          body \in ConcurrentPatches : Arrive(slot, "updateTask", hdr, id, body)
    \/ \E slot \in Slots, hdr \in ConcurrentHeaders, id \in ConcurrentIds :
          Arrive(slot, "deleteTask", hdr, id, NoArg)
    \/ \E slot \in Slots : UpdateTaskFind(slot)
    \/ \E slot \in Slots : UpdateTaskWrite(slot)
    \/ \E slot \in Slots : DeleteTaskFind(slot)
    \/ \E slot \in Slots : DeleteTaskRemove(slot)
    \/ \E slot \in Slots : Respond(slot)

SpecConcurrent == Init /\ [][NextConcurrent]_vars

\* a dashboard of the employee or of the administrator, from its mounting: the
\* fetch, then the requests its handlers send while others are under way,
\* served await by await and answered in any order; the store holds one of
\* the tasks of seed.js
SeedTask ==
    TaskDocument([title |-> Bug, status |-> "In Progress", priority |-> "High",
                  dueDate |-> 2, employeeId |-> "u2"], ObjectId("t", 1), 0)

FormData(title, status) ==
    [title |-> title, description |-> << >>, status |-> status, dueDate |-> 2,
     priority |-> "Medium"]

InitDashboards ==
    /\ users = SeedUsers
    /\ pending = {}
    /\ tasks = <<SeedTask>>
    /\ nextTaskId = 1
    /\ departments = << >>
    /\ nextDeptId = 0
    /\ now = 0
    /\ last = NoRequest
    /\ browser \in {[NewBrowser EXCEPT !.user = SessionOf("u1"), !.path = "/admin-dashboard"],
                     [NewBrowser EXCEPT !.user = SessionOf("u2"),
                                        !.path = "/employee-dashboard"]}
    /\ employeeDashboard = NewEmployeeDashboard
    /\ adminDashboard = NewAdminDashboard
    /\ dateRangePicker = NewDateRangePicker
    /\ inflight = NoRequests

NextDashboards ==
    \/ \E reached \in BOOLEAN : FetchTasks(reached)
    \/ \E slot \in Slots : AddTask(slot, FormData(Fix, "To Do"))
    \/ \E slot \in Slots, id \in ConcurrentIds :
          EmployeeUpdateTask(slot, id, FormData(Fix, "Review"))
    \/ \E slot \in Slots, id \in ConcurrentIds : EmployeeDeleteTask(slot, id)
    \/ \E slot \in Slots : NetworkError(slot)
    \/ \E slot \in Slots : CreateTaskServe(slot)
    \/ \E slot \in Slots : UpdateTaskFind(slot)
    \/ \E slot \in Slots : UpdateTaskWrite(slot)
    \/ \E slot \in Slots : DeleteTaskFind(slot)
    \/ \E slot \in Slots : DeleteTaskRemove(slot)
    \/ \E slot \in Slots : EmployeeSettle(slot)
    \/ \E reached \in BOOLEAN : FetchTasksAndDepartments(reached)
    \/ \E exportOptions \in ExportOptionInputs : HandleExport(exportOptions)

SpecDashboards == InitDashboards /\ [][NextDashboards]_vars

\* the routes of the client: paths visited, logins and logouts
RoutingLoginBodies ==
    [email : {<< >>, EmailAdmin, EmailJohn, EmailSarah, EmailNew},
     password : {<< >>, SeedPassword, GoodPassword}]

NextRouting ==
    \/ \E path \in Paths : Visit(path)
    \/ FollowNavigate
    \/ \E body \in RoutingLoginBodies : LoginHandleSubmit(body)
    \/ HandleLogout

SpecRouting == Init /\ [][NextRouting]_vars

\* every protected route under every shape of Authorization header, as time passes
NextProtect ==
    \/ Tick
    \/ \E hdr \in AllHeaders : GetMe(hdr)
    \/ \E hdr \in AllHeaders : GetTasks(hdr)
    \/ \E hdr \in AllHeaders : GetEmployeeTasks(hdr, "u2")
    \/ \E hdr \in AllHeaders : GetTask(hdr, "t1")
    \/ \E hdr \in AllHeaders : nextTaskId < MaxProtectDocs /\ CreateTask(hdr, [title |-> Fix])
    \/ \E hdr \in AllHeaders : UpdateTask(hdr, "t1", [status |-> "Review"])
    \/ \E hdr \in AllHeaders : DeleteTask(hdr, "t1")
    \/ \E hdr \in AllHeaders : ExportTasks(hdr, [department |-> << >>])
    \/ \E hdr \in AllHeaders : GetDepartments(hdr)
    \/ \E hdr \in AllHeaders : GetDepartment(hdr, "d1")
    \/ \E hdr \in AllHeaders :
          nextDeptId < MaxProtectDocs /\ CreateDepartment(hdr, [name |-> Engineering])
    \/ \E hdr \in AllHeaders : UpdateDepartment(hdr, "d1", [name |-> Marketing])
    \/ \E hdr \in AllHeaders : DeleteDepartment(hdr, "d1")

SpecProtect == Init /\ [][NextProtect]_vars

\* the employee's dashboard: the quick filters as the clock runs
NextEmployeeDashboard ==
    \/ \E filter \in QuickFilters : EmployeeSetFilter(filter)
    \/ ClockTick

SpecEmployeeDashboard == InitEmployeeDashboard /\ [][NextEmployeeDashboard]_vars

\* the administrator's dashboard: department, date range, search, filter
NextAdminDashboard ==
    \/ \E department \in DepartmentSelections : SelectDepartment(department)
    \/ \E term \in SearchTerms : SetSearchTerm(term)
    \/ \E filter \in AdminQuickFilters : AdminSetFilter(filter)
    \/ \E day \in DateInputs : HandleStartDateChange(day)
    \/ \E day \in DateInputs : HandleEndDateChange(day)
    \/ ClearDates

SpecAdminDashboard == InitAdminDashboard /\ [][NextAdminDashboard]_vars

\* ================================================================ claims
\* The actor of the last request, the task it names, and the outcome kinds.
Actor == last'.user
IsAdmin(u) == users[u].role = "admin"
Succeeded(res) == res.status \in {200, 201}

\* A policy denial (Forbidden): an error sent to an authenticated actor by a
\* policy check, in the web mapping 401 or 403, and not protect's own refusal
Forbidden(res) ==
    /\ res.status \in {401, 403}
    /\ res.body.message # <<"Not authorized to access this route">>

\* the schema's constraints on the paths a PUT body names
ValidPatch(body) ==
    /\ Has(body, "title") => Trim(body.title) # << >> /\ Len(Trim(body.title)) <= 100
    /\ Has(body, "description") => Len(Trim(body.description)) <= 500
    /\ Has(body, "status") =>
          body.status \in {"To Do", "In Progress", "Review", "Done", Null}
    /\ Has(body, "priority") =>
          body.priority \in {"Low", "Medium", "High", "Urgent", Null}
    /\ Has(body, "employeeId") => body.employeeId # ""

ModifiesTask == last'.op \in {"updateTask", "deleteTask"} /\ FindById(tasks, last'.arg.id) # 0
NamedTask == tasks[FindById(tasks, last'.arg.id)]
AllowedOnTask == IsAdmin(Actor) \/ Actor = NamedTask.employeeId

\* C1 as stated: PUT and DELETE on an existing task succeed if and only if the
\* actor is admin or the owner; otherwise Forbidden, and the task is unchanged.
C1_AsStated ==
    [][ModifiesTask =>
          /\ Succeeded(last'.res) <=> AllowedOnTask
          /\ ~AllowedOnTask => Forbidden(last'.res) /\ tasks' = tasks]_vars

\* C1 (amended): DELETE on an existing task succeeds if and only if the actor is
\* admin or the owner; PUT succeeds if and only if the actor is admin or the
\* owner and the body passes the schema's validators; an actor who is neither
\* is denied as Forbidden; whenever the request does not succeed the store of
\* tasks is unchanged.
C1_WriteIffAllowedAndValid ==
    [][ModifiesTask =>
          /\ Succeeded(last'.res) <=>
                /\ AllowedOnTask
                /\ last'.op = "updateTask" => ValidPatch(last'.arg.body)
          /\ ~AllowedOnTask => Forbidden(last'.res)
          /\ ~Succeeded(last'.res) => tasks' = tasks]_vars

\* a non-owner employee was denied a write on an existing task
C1_Witness ==
    /\ last.op \in {"updateTask", "deleteTask"}
    /\ FindById(tasks, last.arg.id) # 0
    /\ ~IsAdmin(last.user)
    /\ last.user # tasks[FindById(tasks, last.arg.id)].employeeId
    /\ last.res.status = 401

\* the employee id a createTask body names, the actor's own when it names none
NamedEmployee == 
    IF Has(last'.arg, "employeeId") /\ last'.arg.employeeId # ""
    THEN last'.arg.employeeId ELSE Actor

\* C2: createTask by an employee creates a task only for the employee's own
\* id: a body that names nobody yields a task owned by the actor, a body that
\* names another user is denied and creates nothing; every task an employee
\* creates is owned by its creator.
C2_EmployeeCreatesOwnOnly ==
    [][last'.op = "createTask" /\ ~IsAdmin(Actor) =>
          /\ NamedEmployee # Actor => Forbidden(last'.res) /\ tasks' = tasks
          /\ last'.res.status = 201 =>
                /\ tasks' = Append(tasks, last'.res.body)
                /\ last'.res.body.employeeId = Actor
          /\ last'.res.status # 201 => tasks' = tasks]_vars

\* an employee posted a body without employeeId and the task created is theirs
C2_Witness ==
    /\ last.op = "createTask"
    /\ ~IsAdmin(last.user)
    /\ ~Has(last.arg, "employeeId")
    /\ last.res.status = 201
    /\ \E i \in 1..Len(tasks) : tasks[i] = last.res.body /\ tasks[i].employeeId = last.user

\* C3: getEmployeeTasks returns tasks only to an admin or to the employee
\* asked for, and then exactly the stored tasks of that employee; an employee
\* asking for another user's tasks is denied and gets none of them.
C3_EmployeeTasksScoped ==
    last.op = "getEmployeeTasks" =>
        /\ last.res.status = 200 =>
              /\ IsAdmin(last.user) \/ last.user = last.arg.id
              /\ \A i \in 1..Len(last.res.body) : last.res.body[i].employeeId = last.arg.id
              /\ {last.res.body[i] : i \in 1..Len(last.res.body)}
                    = {tasks[i] : i \in {j \in 1..Len(tasks) : tasks[j].employeeId = last.arg.id}}
              /\ Len(last.res.body)
                    = Cardinality({j \in 1..Len(tasks) : tasks[j].employeeId = last.arg.id})
        /\ (~IsAdmin(last.user) /\ last.user # last.arg.id /\ last.arg.id \in DOMAIN users)
              => Forbidden(last.res)

\* an employee asked for the tasks of another user, who has one, and was denied
C3_Witness ==
    /\ last.op = "getEmployeeTasks"
    /\ ~IsAdmin(last.user)
    /\ last.user # last.arg.id
    /\ \E i \in 1..Len(tasks) : tasks[i].employeeId = last.arg.id
    /\ last.res.status = 401

\* C4: getTask on an existing task returns it to an employee if and only if
\* the employee owns it, and to every admin; a non-owner employee is denied.
C4_GetTaskOwnerOrAdmin ==
    (last.op = "getTask" /\ FindById(tasks, last.arg.id) # 0) =>
        LET task == tasks[FindById(tasks, last.arg.id)]
        IN  /\ IsAdmin(last.user) => last.res.status = 200
            /\ ~IsAdmin(last.user) =>
                  (last.res.status = 200 <=> last.user = task.employeeId)
            /\ (~IsAdmin(last.user) /\ last.user # task.employeeId) => Forbidden(last.res)

AdminOnlyOps ==
    {"getTasks", "exportTasks", "createDepartment", "updateDepartment", "deleteDepartment"}

\* C5: the task list, the export and the department writes are performed only
\* for an admin: an authenticated non-admin is denied with Forbidden (403),
\* receives no task data and changes no department; every authenticated actor
\* may read the department list.
C5_AdminOnlyRoutes ==
    [][/\ (last'.op \in AdminOnlyOps /\ ~IsAdmin(Actor)) =>
              /\ last'.res.status = 403
              /\ Forbidden(last'.res)
              /\ DOMAIN last'.res.body = {"success", "message"}
              /\ departments' = departments
              /\ tasks' = tasks
       /\ (last'.op \in AdminOnlyOps /\ Succeeded(last'.res)) => IsAdmin(Actor)
       /\ last'.op = "getDepartments" => last'.res = [status |-> 200, body |-> departments]
      ]_vars

\* an employee asked for the export of a store that holds tasks and got 403
C5_Witness ==
    /\ last.op = "exportTasks"
    /\ ~IsAdmin(last.user)
    /\ Len(tasks) > 0
    /\ last.res.status = 403

ProtectedOps ==
    {"getMe", "getTasks", "getEmployeeTasks", "getTask", "createTask", "updateTask",
     "deleteTask", "exportTasks", "getDepartments", "getDepartment", "createDepartment",
     "updateDepartment", "deleteDepartment"}

\* the header carries a token (the part after a scheme that starts with Bearer)
\* that is signed by the server and not expired
ValidToken(hdr) ==
    /\ Len(hdr) >= 2
    /\ hdr[1] \in {"Bearer", "Bearerx"}
    /\ hdr[2].sig = "secret"
    /\ now < hdr[2].exp

Unauthorized ==
    [status |-> 401,
     body |-> [success |-> FALSE, message |-> <<"Not authorized to access this route">>]]

\* C9: every protected endpoint answers Unauthorized (401) without running
\* its controller when the header carries no token or one that is malformed,
\* forged or expired; a controller runs only with req.user the user the valid
\* token identifies.
C9_ProtectBeforeController ==
    [][last'.op \in ProtectedOps =>
          /\ ~ValidToken(last'.hdr) =>
                /\ last'.res = Unauthorized
                /\ UNCHANGED <<users, tasks, nextTaskId, departments, nextDeptId>>
          /\ last'.res # Unauthorized =>
                /\ ValidToken(last'.hdr)
                /\ last'.user = last'.hdr[2].id
                /\ last'.user \in DOMAIN users]_vars

\* a protected request with a token the server signed, now expired, got 401
C9_Witness ==
    /\ last.op \in ProtectedOps
    /\ Len(last.hdr) = 2
    /\ last.hdr[1] = "Bearer"
    /\ last.hdr[2].sig = "secret"
    /\ now >= last.hdr[2].exp
    /\ last.res.status = 401

InvalidCredentialsResponse ==
    [status |-> 401, body |-> [success |-> FALSE, message |-> <<"Invalid credentials">>]]

NoUserHasEmail(email) == \A u \in DOMAIN users : users[u].email # email
PasswordDiffers(email, password) ==
    \E u \in DOMAIN users :
        /\ users[u].email = email
        /\ \A salt \in Salts : users[u].password # BcryptHash(password, salt)

\* C6: a login with non-empty email and password gets one and the same error
\* (401, "Invalid credentials") when no user has the email and when the user
\* exists but the password does not match.
C6_UniformLoginError ==
    (last.op = "login" /\ last.arg.email # << >> /\ last.arg.password # << >>) =>
        /\ NoUserHasEmail(last.arg.email) => last.res = InvalidCredentialsResponse
        /\ PasswordDiffers(last.arg.email, last.arg.password)
              => last.res = InvalidCredentialsResponse

\* a login for a registered email with the wrong password was refused
C6_Witness ==
    /\ last.op = "login"
    /\ last.arg.password # << >>
    /\ PasswordDiffers(last.arg.email, last.arg.password)
    /\ last.res.status = 401

UniqueEmails ==
    \A u, v \in DOMAIN users : users[u].email = users[v].email => u = v

DuplicateResponse(status) ==
    [status |-> status,
     body |-> [success |-> FALSE, message |-> <<"Duplicate field value entered">>]]

\* C7 as stated: register with an email already registered returns
\* DuplicateError with status 409 and leaves the users unchanged.
C7_AsStated ==
    [][(last'.op = "register" /\ ~NoUserHasEmail(last'.arg.email)) =>
          last'.res = DuplicateResponse(409) /\ users' = users]_vars

\* the fields of a register body pass the schema
ValidRegisterBody(body) ==
    /\ Trim(body.name) # << >>
    /\ EmailMatch(body.email)
    /\ Len(body.password) >= 6
    /\ body.role \in {NoRole, Null, "employee", "admin"}
    /\ Trim(body.department) # << >>

\* C7 (amended): register with a body that passes validation and an email
\* already registered returns DuplicateError with status 400 and leaves the
\* users unchanged (a body that fails validation gets the ValidationError);
\* after any sequence of register calls, concurrent ones included, no two
\* user records share an email.
C7_DuplicateEmailRefused ==
    /\ []UniqueEmails
    /\ [][(last'.op = "register" /\ ~NoUserHasEmail(last'.arg.email)) =>
             /\ users' = users
             /\ ValidRegisterBody(last'.arg) => last'.res = DuplicateResponse(400)
             /\ ~ValidRegisterBody(last'.arg) =>
                   last'.res.status = 400 /\ last'.res # DuplicateResponse(400)]_vars

\* a register for the email of a stored user was refused as a duplicate
C7_Witness ==
    /\ last.op = "register"
    /\ \E u \in DOMAIN users : users[u].email = last.arg.email
    /\ last.res = DuplicateResponse(400)

\* what C8 lists: a required field missing, the email malformed, the password short
MissingOrMalformed(body) ==
    \/ body.name = << >>
    \/ body.email = << >>
    \/ body.password = << >>
    \/ body.department = << >>
    \/ ~EmailMatch(body.email)
    \/ Len(body.password) < 6

\* C8: register fails with ValidationError (400) and creates no user record
\* whenever name, email, password or department is missing, the email is
\* malformed, or the password has fewer than 6 characters.
C8_InvalidRegistrationRefused ==
    /\ [][(last'.op = "register" /\ MissingOrMalformed(last'.arg)) =>
             /\ last'.res.status = 400
             /\ last'.res # DuplicateResponse(400)
             /\ users' = users
             /\ pending' = pending]_vars
    /\ [](\A p \in pending : ~MissingOrMalformed(p.body))

\* a register with a five-character password was refused with 400
C8_Witness ==
    /\ last.op = "register"
    /\ last.arg.password # << >>
    /\ Len(last.arg.password) < 6
    /\ last.arg.name # << >>
    /\ EmailMatch(last.arg.email)
    /\ last.res.status = 400

\* the passwords users have typed, and everything bcrypt makes of them
Plaintexts == {SeedPassword, GoodPassword, ShortPassword}
Hashes == {BcryptHash(pw, salt) : pw \in Plaintexts, salt \in Salts}
Secrets == Plaintexts \cup Hashes

\* the text-valued fields of a JSON object are no password and no hash
NoSecretIn(json) ==
    /\ "password" \notin DOMAIN json
    /\ \A f \in DOMAIN json \cap {"name", "email", "department", "message"} :
          json[f] \notin Secrets

\* C10: no stored user record holds the plaintext password, the stored value
\* being the hash of the password submitted; no response of register, login or
\* getMe contains the password or its hash; a register response holds exactly
\* id, name, email, role, department and token.
C10_NoPasswordStoredOrSent ==
    /\ [](\A u \in DOMAIN users :
             IsBcrypt(users[u].password) /\ users[u].password \notin Plaintexts)
    /\ [](\A p \in pending :
             /\ p.doc.password # p.body.password
             /\ \E salt \in Salts : p.doc.password = BcryptHash(p.body.password, salt))
    /\ [][(last'.op = "register" /\ last'.res.status = 201) =>
             /\ DOMAIN last'.res.body = {"id", "name", "email", "role", "department", "token"}
             /\ DOMAIN last'.res.body.token = {"id", "role", "exp", "sig"}
             /\ last'.res.body.id \in DOMAIN users' \ DOMAIN users
             /\ users'[last'.res.body.id].password # last'.arg.password
             /\ \E salt \in Salts :
                   users'[last'.res.body.id].password = BcryptHash(last'.arg.password, salt)
          ]_vars
    /\ [](last.op \in {"register", "login", "getMe"} =>
             /\ NoSecretIn(last.res.body)
             /\ "data" \in DOMAIN last.res.body => NoSecretIn(last.res.body.data))

\* a registration succeeded and the new record holds the hash of its password
C10_Witness ==
    /\ last.op = "register"
    /\ last.res.status = 201
    /\ users[last.res.body.id].password = BcryptHash(GoodPassword, "salt1")

\* the stored task with this id after the step; ids are never handed out twice
SameTaskAfter(i) == tasks'[FindById(tasks', tasks[i]._id)]

\* C11: a task's employeeId and createdAt never change after creation: every
\* step, updateTask by any authorized actor with any body included, leaves
\* them as they were for every task that is still stored.
C11_OwnerAndCreatedImmutable ==
    [][\A i \in 1..Len(tasks) :
          FindById(tasks', tasks[i]._id) # 0 =>
              /\ SameTaskAfter(i).employeeId = tasks[i].employeeId
              /\ SameTaskAfter(i).createdAt = tasks[i].createdAt]_vars

\* the constraints C12 lists for a stored task
WellFormedTask(task) ==
    /\ task.title # << >> /\ Len(task.title) <= 100
    /\ Len(task.description) <= 500
    /\ task.status \in {"To Do", "In Progress", "Review", "Done"}
    /\ task.priority \in {"Low", "Medium", "High", "Urgent"}
    /\ task.employeeId \notin {"", Null}

\* the task a create or update asks for: the body's values, trimmed, over the
\* stored task's (update) or over the defaults and the caller's id (create)
RequestedTask ==
    IF last'.op = "createTask"
    THEN TaskDocument(WithEmployeeId(last'.arg, Actor), "t", now)
    ELSE ApplyUpdate(NamedTask, last'.arg.body)

\* a create, or an update of a stored task, that got past protect
WritesTask ==
    /\ last'.user # NullUser
    /\ \/ last'.op = "createTask"
       \/ last'.op = "updateTask" /\ FindById(tasks, last'.arg.id) # 0

\* C12: every stored task has a non-empty title of at most 100 characters, a
\* description of at most 500, status and priority in their enums and a
\* non-null employeeId; a create or update that would break this is refused
\* with 400 and leaves the store unchanged; a task created without status or
\* priority gets To Do and Medium.
C12_StoredTasksWellFormed ==
    /\ [](\A i \in 1..Len(tasks) : WellFormedTask(tasks[i]))
    /\ [][(WritesTask /\ ~WellFormedTask(RequestedTask)) =>
             last'.res.status = 400 /\ tasks' = tasks]_vars
    /\ [][(last'.op = "createTask" /\ last'.res.status = 201) =>
             /\ ~Has(last'.arg, "status") => last'.res.body.status = "To Do"
             /\ ~Has(last'.arg, "priority") => last'.res.body.priority = "Medium"]_vars

NamesAbsentTask ==
    /\ last'.op \in {"updateTask", "deleteTask"}
    /\ last'.user # NullUser
    /\ FindById(tasks, last'.arg.id) = 0

\* C13: updateTask and deleteTask on an id that is not in the store answer
\* 404 to every actor, admin or employee, and leave the store unchanged;
\* deleteTask of a stored task by its owner or an admin removes that task and
\* no other.
C13_AbsentIdNotFound ==
    /\ [][NamesAbsentTask => last'.res.status = 404 /\ tasks' = tasks]_vars
    /\ [][(ModifiesTask /\ last'.op = "deleteTask" /\ AllowedOnTask) =>
             /\ last'.res.status = 200
             /\ Len(tasks') = Len(tasks) - 1
             /\ \A i \in 1..Len(tasks) :
                   (\E j \in 1..Len(tasks') : tasks'[j] = tasks[i])
                       <=> tasks[i]._id # last'.arg.id]_vars

\* the second of two stored tasks was deleted and the first is still there
C13_Witness ==
    /\ last.op = "deleteTask"
    /\ last.res.status = 200
    /\ last.arg.id = "t2"
    /\ Len(tasks) = 1
    /\ tasks[1]._id = "t1"

\* an employee named a task id that was never handed out and got 404
C13_WitnessAbsent ==
    /\ last.op \in {"updateTask", "deleteTask"}
    /\ last.user = "u2"
    /\ last.arg.id = "t3"
    /\ last.res.status = 404

\* the step from a successful createTask to a getEmployeeTasks for the
\* task's owner by a caller the policy lets read them
ReadsBackCreated ==
    /\ last.op = "createTask" /\ last.res.status = 201
    /\ last'.op = "getEmployeeTasks"
    /\ last'.arg.id = last.res.body.employeeId
    /\ IsAdmin(Actor) \/ Actor = last'.arg.id

\* the listed task has the id of the created one, which no other stored task
\* has, and the creation's timestamp
CarriesServerFields(t) ==
    /\ t._id = last.res.body._id
    /\ Cardinality({i \in 1..Len(tasks') : tasks'[i]._id = t._id}) = 1
    /\ t.createdAt = last.res.body.createdAt
    /\ t.createdAt \in 0..now

\* status, priority and due date are the submitted ones (the due date as the
\* instant the submitted day denotes), the defaults where none was submitted
KeepsSubmittedChoices(t) ==
    /\ t.status = (IF Has(last.arg, "status") THEN last.arg.status ELSE "To Do")
    /\ t.priority = (IF Has(last.arg, "priority") THEN last.arg.priority ELSE "Medium")
    /\ Has(last.arg, "dueDate") => t.dueDate = last.arg.dueDate * 24

\* C14 as stated: after a successful createTask for owner O, getEmployeeTasks(O)
\* includes a task with the submitted title, description, status, priority and
\* due date unchanged, a server-assigned id of its own and a created timestamp.
C14_AsStated ==
    [][ReadsBackCreated =>
          /\ last'.res.status = 200
          /\ \E k \in 1..Len(last'.res.body) :
                LET t == last'.res.body[k]
                IN  /\ t.title = last.arg.title
                    /\ Has(last.arg, "description") => t.description = last.arg.description
                    /\ KeepsSubmittedChoices(t)
                    /\ CarriesServerFields(t)]_vars

\* C14 (amended): after a successful createTask for an owner O who is a
\* registered user, getEmployeeTasks(O) includes a task whose title and
\* description are the submitted ones with leading and trailing whitespace
\* removed, whose status, priority and due date are the submitted ones, and
\* which carries a server-assigned id of its own and a created timestamp.
C14_RoundTripTrimmed ==
    [][(ReadsBackCreated /\ last'.arg.id \in DOMAIN users) =>
          /\ last'.res.status = 200
          /\ \E k \in 1..Len(last'.res.body) :
                LET t == last'.res.body[k]
                IN  /\ t.title = Trim(last.arg.title)
                    /\ Has(last.arg, "description") =>
                          t.description = Trim(last.arg.description)
                    /\ KeepsSubmittedChoices(t)
                    /\ CarriesServerFields(t)]_vars

\* the owner reads back a task submitted with a padded title and a due date
C14_Witness ==
    /\ last.op = "getEmployeeTasks"
    /\ last.res.status = 200
    /\ last.user = last.arg.id
    /\ \E k \in 1..Len(last.res.body) :
          /\ last.res.body[k].title = Fix
          /\ last.res.body[k].dueDate = 48

\* an authenticated actor asking for what the policy keeps from them: another
\* employee's task list, a task for another employee, another's stored task
PolicyDenied ==
    /\ last'.user # NullUser
    /\ ~IsAdmin(Actor)
    /\ \/ /\ last'.op = "getEmployeeTasks"
          /\ last'.arg.id \in DOMAIN users
          /\ last'.arg.id # Actor
       \/ /\ last'.op = "createTask"
          /\ Has(last'.arg, "employeeId")
          /\ last'.arg.employeeId # Actor
       \/ /\ last'.op \in {"updateTask", "deleteTask"}
          /\ FindById(tasks, last'.arg.id) # 0
          /\ NamedTask.employeeId # Actor

\* C15: every error response carries the status of its kind: 404 for an
\* absent id, 401 for a missing or invalid token, 403 for the policy denial
\* of an authenticated actor, which by its status is told apart from the
\* Unauthorized outcome of a missing or invalid token.
C15_StatusOfKind ==
    [][/\ NamesAbsentTask => last'.res.status = 404
       /\ (last'.op # "none" /\ ~protect(last'.hdr).next) => last'.res.status = 401
       /\ PolicyDenied => last'.res.status = 403 /\ Forbidden(last'.res)]_vars

\* the calendar day of an instant in the browser's zone
LocalDay(t) == (t + browser.zone) \div 24
Today == LocalDay(browser.clock)

\* C16: the overdue quick filter keeps a task iff it has a due date whose
\* local calendar day is strictly before today's and its status is not Done:
\* due yesterday and not Done is kept; due today, Done, or without a due date
\* is dropped.
C16_OverdueFilter ==
    employeeDashboard.filter = "overdue" =>
        /\ EmployeeShown =
              SelectSeq(employeeDashboard.tasks,
                        LAMBDA t : /\ t.dueDate # -1
                                   /\ LocalDay(t.dueDate) < Today
                                   /\ t.status # "Done")
        /\ \A i \in 1..Len(employeeDashboard.tasks) :
              LET t == employeeDashboard.tasks[i]
                  kept == \E k \in 1..Len(EmployeeShown) : EmployeeShown[k] = t
              IN  /\ (t.dueDate # -1 /\ LocalDay(t.dueDate) = Today - 1
                        /\ t.status # "Done") => kept
                  /\ (t.dueDate # -1 /\ LocalDay(t.dueDate) = Today) => ~kept
                  /\ t.status = "Done" => ~kept
                  /\ t.dueDate = -1 => ~kept

\* the overdue filter shows one of two open tasks: the other is due today
C16_Witness ==
    /\ employeeDashboard.filter = "overdue"
    /\ Len(employeeDashboard.tasks) = 2
    /\ Len(EmployeeShown) = 1
    /\ LocalDay(EmployeeShown[1].dueDate) = Today - 1
    /\ \E i \in 1..2 :
          /\ employeeDashboard.tasks[i].status # "Done"
          /\ employeeDashboard.tasks[i].dueDate # -1
          /\ LocalDay(employeeDashboard.tasks[i].dueDate) = Today

\* whether the listed task with this index is among those shown
AdminKeeps(i) ==
    \E k \in 1..Len(AdminShown) : AdminShown[k] = adminDashboard.tasks[i]

\* only the date range is selecting: all departments, no search term
OnlyDateRange ==
    /\ adminDashboard.selectedDepartment = AllDepartments
    /\ adminDashboard.searchTerm = << >>

\* the due date lies in the window of picked days, either end open
InPickedWindow(task, range) ==
    /\ task.dueDate # -1
    /\ range.startDate # 0 => range.startDate <= LocalDay(task.dueDate)
    /\ range.endDate # 0 => LocalDay(task.dueDate) <= range.endDate

\* C17: with a date range active the admin list keeps exactly the tasks with
\* a due date d, start <= d and d <= end where set, both inclusive by calendar
\* day; tasks without a due date are dropped while the range is active; with
\* no bound set nothing is removed.
C17_DateRangeInclusive ==
    OnlyDateRange =>
        IF adminDashboard.dateRange.startDate = 0 /\ adminDashboard.dateRange.endDate = 0
        THEN AdminShown = adminDashboard.tasks
        ELSE AdminShown =
                 SelectSeq(adminDashboard.tasks,
                           LAMBDA t : InPickedWindow(t, adminDashboard.dateRange))

\* the same, in browsers at or ahead of UTC
C17_HoldsFromUTCEastward == browser.zone >= 0 => C17_DateRangeInclusive

\* two characters that are the same letter in either case, or the same character
SameIgnoringCase(a, b) ==
    \/ a = b
    \/ \E k \in 1..26 : {a, b} = {Uppercase[k], Lowercase[k]}

\* the term occurs in the text, case ignored
ContainsIgnoringCase(text, term) ==
    \E i \in 0..(Len(text) - Len(term)) :
        \A k \in 1..Len(term) : SameIgnoringCase(text[i + k], term[k])

\* the term occurs in the task's title, description or owner's name
Matches(task, term) ==
    \/ ContainsIgnoringCase(task.title, term)
    \/ task.description # << >> /\ ContainsIgnoringCase(task.description, term)
    \/ ContainsIgnoringCase(task.employee.name, term)

\* only the search is selecting: all departments, no date range
OnlySearch ==
    /\ adminDashboard.selectedDepartment = AllDepartments
    /\ adminDashboard.dateRange = NoDateRange

\* C18 as stated: the search keeps a task iff the term, case ignored, is a
\* substring of its title, its description when present or its owner's name;
\* an empty term removes nothing.
C18_AsStated ==
    OnlySearch =>
        AdminShown = SelectSeq(adminDashboard.tasks,
                               LAMBDA t : Matches(t, adminDashboard.searchTerm))

\* C18 (amended): a term that is empty or all whitespace removes nothing; any
\* other term, taken as typed with its leading and trailing whitespace, keeps
\* a task iff, case ignored, it is a substring of the task's title, of its
\* description when present, or of its owner's name.
C18_SearchUnlessBlank ==
    OnlySearch =>
        IF \A i \in 1..Len(adminDashboard.searchTerm) : adminDashboard.searchTerm[i] = " "
        THEN AdminShown = adminDashboard.tasks
        ELSE AdminShown = SelectSeq(adminDashboard.tasks,
                                    LAMBDA t : Matches(t, adminDashboard.searchTerm))

\* the term BUG keeps a task titled Bug and drops one that has no bug in it
C18_Witness ==
    /\ OnlySearch
    /\ adminDashboard.searchTerm = <<"B", "U", "G">>
    /\ Len(adminDashboard.tasks) = 2
    /\ Len(AdminShown) = 1
    /\ AdminShown[1].title = <<"B", "u", "g">>

\* the task passes the quick filter of this name
PassesQuickFilter(task, filter) ==
    EmployeeFilteredTasks(<<task>>, filter, browser.clock, browser.zone) # << >>

\* the task passes a stage taken on its own
PassesDepartment(task) ==
    DepartmentStage(<<task>>, adminDashboard.selectedDepartment) # << >>
PassesDateRange(task) ==
    DateRangeStage(<<task>>, adminDashboard.dateRange, browser.zone) # << >>
PassesSearch(task) ==
    SearchStage(<<task>>, adminDashboard.searchTerm) # << >>

\* C19: the admin list is exactly the intersection of the four stages: the
\* selected department (or all), the one selected quick filter (or all), the
\* date range and the search term; for department Engineering and term bug it
\* is exactly the tasks of Engineering owners that contain bug, case ignored,
\* in title, description or owner name.
C19_IntersectionOfFourStages ==
    /\ AdminShown =
          SelectSeq(adminDashboard.tasks,
                    LAMBDA t : /\ PassesDepartment(t)
                               /\ PassesQuickFilter(t, adminDashboard.filter)
                               /\ PassesDateRange(t)
                               /\ PassesSearch(t))
    /\ (/\ adminDashboard.selectedDepartment = Engineering
        /\ adminDashboard.searchTerm = Bug
        /\ adminDashboard.filter = "all"
        /\ adminDashboard.dateRange = NoDateRange) =>
          AdminShown =
              SelectSeq(adminDashboard.tasks,
                        LAMBDA t : t.employee.department = Engineering /\ Matches(t, Bug))

\* the same with the quick filter left at all
C19_HoldsWithoutQuickFilter == adminDashboard.filter = "all" => C19_IntersectionOfFourStages

\* the department filter and then the text search, on any task sequence
DepartmentThenSearch(ts) ==
    SearchStage(DepartmentStage(ts, adminDashboard.selectedDepartment),
                adminDashboard.searchTerm)

\* C20: the department filter followed by the text search is idempotent, run
\* again with the same values on its own output it returns that output, and
\* the two stages commute.
C20_IdempotentAndCommuting ==
    /\ DepartmentThenSearch(DepartmentThenSearch(adminDashboard.tasks))
          = DepartmentThenSearch(adminDashboard.tasks)
    /\ DepartmentStage(SearchStage(adminDashboard.tasks, adminDashboard.searchTerm),
                       adminDashboard.selectedDepartment)
          = DepartmentThenSearch(adminDashboard.tasks)

\* the department filter drops one of two tasks and the search keeps the other
C20_Witness ==
    /\ adminDashboard.selectedDepartment = Engineering
    /\ adminDashboard.searchTerm = Bug
    /\ Len(adminDashboard.tasks) = 2
    /\ Len(DepartmentStage(adminDashboard.tasks, Engineering)) = 1
    /\ Len(SearchStage(adminDashboard.tasks, Bug)) = 2
    /\ Len(DepartmentThenSearch(adminDashboard.tasks)) = 1

\* the elements of sub are elements of ts at increasing positions
RECURSIVE IsSubsequence(_, _)
IsSubsequence(sub, ts) ==
    IF sub = << >> THEN TRUE
    ELSE IF ts = << >> THEN FALSE
    ELSE IF Head(sub) = Head(ts) THEN IsSubsequence(Tail(sub), Tail(ts))
    ELSE IsSubsequence(sub, Tail(ts))

\* C21: the admin's task list is in descending order of created timestamp,
\* and under every combination of filters the list shown is a subsequence of
\* it: the same relative order, nothing reordered, nothing shown twice.
C21_NewestFirstAndOrderPreserving ==
    /\ NewestFirst(adminDashboard.tasks)
    /\ IsSubsequence(AdminShown, adminDashboard.tasks)
    /\ NewestFirst(AdminShown)

\* two tasks of different age are listed newest first and a filter shows one
C21_Witness ==
    /\ Len(adminDashboard.tasks) = 2
    /\ adminDashboard.tasks[1].createdAt > adminDashboard.tasks[2].createdAt
    /\ adminDashboard.searchTerm # << >>
    /\ Len(AdminShown) = 1

\* the stored tasks an export for the department parameter is to list: those
\* whose owner is of that department, every task without one or with 'all'
TasksOfDepartment(department) ==
    IF department = << >> \/ department = AllDepartments THEN tasks
    ELSE SelectSeq(tasks, LAMBDA t :
             t.employeeId \in DOMAIN users /\ users[t.employeeId].department = department)

\* the row the export is to hold for a task
RowOf(task, row) ==
    /\ row.id = task._id
    /\ row.title = task.title
    /\ row.description = task.description
    /\ row.status = task.status
    /\ row.priority = task.priority
    /\ row.dueDate = IF task.dueDate = NoDate THEN "No date set"
                     ELSE ToLocaleDateString(task.dueDate)
    /\ task.employeeId \in DOMAIN users
    /\ row.employee = users[task.employeeId].name
    /\ row.department = users[task.employeeId].department
    /\ row.createdAt = ToLocaleDateString(task.createdAt)

ExportedBy(user) == last.op = "exportTasks" /\ last.user # NullUser /\ IsAdmin(last.user)

HeaderAndRowPerTask ==
    LET listed == TasksOfDepartment(last.arg.department)
    IN  /\ last.res.status = 200
        /\ last.res.body.header = ExportHeader
        /\ Len(last.res.body.rows) = Len(listed)
        /\ \A i \in 1..Len(listed) : RowOf(listed[i], last.res.body.rows[i])

\* C22: the administrator's export for department D holds the header row and
\* exactly one row for each stored task whose owner's department is D, every
\* stored task when D is absent or 'all'; each row carries the id, title,
\* description, status, priority, due date ('No date set' without one), owner
\* name, owner department and created date; with no matching task the export
\* still succeeds, with the header alone.
C22_HeaderAndRowPerTask == ExportedBy(last.user) => HeaderAndRowPerTask

\* the same while every stored task is owned by a stored user
C22_HoldsWhileOwnersExist ==
    (/\ ExportedBy(last.user)
     /\ \A i \in 1..Len(tasks) : tasks[i].employeeId \in DOMAIN users)
        => HeaderAndRowPerTask

\* exports of a store with a dated and an undated task, and of an empty department
C22_WitnessRows ==
    /\ ExportedBy(last.user)
    /\ last.res.status = 200
    /\ Len(last.res.body.rows) = 2
    /\ last.res.body.rows[1].dueDate # "No date set"
    /\ last.res.body.rows[2].dueDate = "No date set"

C22_WitnessHeaderOnly ==
    /\ ExportedBy(last.user)
    /\ Len(tasks) > 0
    /\ last.arg.department = Management
    /\ last.res.status = 200
    /\ last.res.body.rows = << >>

\* C23: the administrator's export succeeds for both format selectors: with
\* PDF chosen a document of the same tasks is saved and no error is shown.
C23_ExportSucceedsForBothFormats ==
    [][\A exportOptions \in ExportOptionInputs :
          HandleExport(exportOptions) =>
              /\ adminDashboard'.error = adminDashboard.error
              /\ browser'.saved.extension =
                     (IF exportOptions.type = "excel" THEN "xlsx" ELSE "pdf")
              /\ Len(browser'.saved.data.rows) =
                     Len(TasksOfDepartment(ExportParams(exportOptions).department))
      ]_vars

\* the same for the Excel format while every stored task is owned by a stored user
C23_HoldsForExcel ==
    [][\A exportOptions \in ExportOptionInputs :
          (/\ HandleExport(exportOptions)
           /\ exportOptions.type = "excel"
           /\ \A i \in 1..Len(tasks) : tasks[i].employeeId \in DOMAIN users) =>
              /\ adminDashboard'.error = adminDashboard.error
              /\ browser'.saved.extension = "xlsx"
              /\ Len(browser'.saved.data.rows) =
                     Len(TasksOfDepartment(ExportParams(exportOptions).department))
      ]_vars

\* the PDF export of a store with tasks ended in the error banner
C23_WitnessPdfFails ==
    /\ last.op = "getTask"
    /\ last.arg.id = "export-pdf"
    /\ last.res.status = 404
    /\ Len(tasks) > 0
    /\ adminDashboard.error # ""

\* C29: the rows of an export depend on the department parameter and the
\* stored tasks alone: a request with startDate or endDate is answered as the
\* request without them.
C29_DatesIgnored ==
    ExportedBy(last.user) =>
        last.res = ExportTasksResponse(last.user,
                       [last.arg EXCEPT !.startDate = NoDay, !.endDate = NoDay])

\* an export with both dates set listed a task with no due date
C29_Witness ==
    /\ ExportedBy(last.user)
    /\ last.arg.startDate # NoDay
    /\ last.arg.endDate # NoDay
    /\ last.res.status = 200
    /\ \E i \in 1..Len(last.res.body.rows) : last.res.body.rows[i].dueDate = "No date set"

\* C25: two authorized updateTask requests on the same task that run
\* concurrently both succeed, with no version check; the store applies the
\* patches whole, one after another in the order of the writes: a write sets
\* the fields of its patch and keeps every other field as stored at that
\* moment, so the last writer wins field by field and the response carries
\* the task as written.
C25_PatchesInStoreOrder ==
    [][\A slot \in Slots :
          (UpdateTaskWrite(slot) /\ FindById(tasks, inflight[slot].id) # 0) =>
              LET r == inflight[slot]
                  i == FindById(tasks, r.id)
              IN  /\ inflight'[slot].res.status = 200
                  /\ inflight'[slot].res.body = tasks'[i]
                  /\ Len(tasks') = Len(tasks)
                  /\ \A j \in 1..Len(tasks) : j # i => tasks'[j] = tasks[j]
                  /\ \A f \in DOMAIN tasks[i] :
                        tasks'[i][f] = IF f \in DOMAIN r.body THEN r.body[f] ELSE tasks[i][f]
      ]_vars

\* two updates of one task are answered 200; the second writer had read the
\* task before the first wrote, and its response keeps the first one's priority
C25_Witness ==
    \E a, b \in Slots :
        /\ a # b
        /\ inflight[a].pc = "done" /\ inflight[b].pc = "done"
        /\ inflight[a].op = "updateTask" /\ inflight[b].op = "updateTask"
        /\ inflight[a].id = inflight[b].id
        /\ inflight[a].res.status = 200 /\ inflight[b].res.status = 200
        /\ inflight[a].body = [status |-> "Done", priority |-> "High"]
        /\ inflight[b].body = [status |-> "Review"]
        /\ inflight[a].res.body.status = "Done"
        /\ inflight[b].found.priority = "Medium"
        /\ inflight[b].res.body.status = "Review"
        /\ inflight[b].res.body.priority = "High"
        /\ FindById(tasks, inflight[b].id) # 0
        /\ tasks[FindById(tasks, inflight[b].id)] = inflight[b].res.body

\* C26: under every interleaving of an updateTask with a deleteTask of the
\* same id, a 200 of updateTask carries the updated task of an existing
\* record; when the task was removed before the write the answer is the
\* not-found error, never a success with an empty body.
C26_UpdateAnswersTaskOrNotFound ==
    \A slot \in Slots :
        (/\ inflight[slot].pc = "done"
         /\ inflight[slot].op = "updateTask"
         /\ inflight[slot].res.status = 200)
            => /\ inflight[slot].res.body._id = inflight[slot].id
               /\ \A f \in DOMAIN inflight[slot].body :
                     inflight[slot].res.body[f] = inflight[slot].body[f]

\* an update and a delete of one task are both answered 200 and the task is gone
C26_WitnessBothSucceed ==
    \E a, b \in Slots :
        /\ inflight[a].pc = "done" /\ inflight[b].pc = "done"
        /\ inflight[a].op = "updateTask" /\ inflight[b].op = "deleteTask"
        /\ inflight[a].id = inflight[b].id
        /\ inflight[a].res.status = 200 /\ inflight[b].res.status = 200
        /\ inflight[a].res.body = NullTask
        /\ FindById(tasks, inflight[a].id) = 0

Failed(res) == res.status < 200 \/ res.status > 299

\* C24: in both dashboards a fetch, add, update, delete or export that fails
\* sets the error banner and leaves the task list the dashboard holds as it was.
C24_FailureSetsBannerKeepsTasks ==
    [][/\ \A slot \in Slots :
              (EmployeeSettle(slot) /\ Failed(inflight[slot].res)) =>
                  /\ employeeDashboard'.error \in
                         {"Failed to add task", "Failed to update task", "Failed to delete task"}
                  /\ employeeDashboard'.tasks = employeeDashboard.tasks
       /\ FetchTasks(FALSE) =>
              /\ employeeDashboard'.error = "Failed to fetch tasks"
              /\ employeeDashboard'.tasks = employeeDashboard.tasks
       /\ FetchTasksAndDepartments(FALSE) =>
              /\ adminDashboard'.error = "Failed to fetch data"
              /\ adminDashboard'.tasks = adminDashboard.tasks
       /\ \A exportOptions \in ExportOptionInputs :
              (HandleExport(exportOptions) /\ Failed(last'.res)) =>
                  /\ adminDashboard'.error # ""
                  /\ adminDashboard'.error # adminDashboard.error \/ adminDashboard.error # ""
                  /\ adminDashboard'.tasks = adminDashboard.tasks
                  /\ browser'.saved = browser.saved
      ]_vars

\* the employee's dashboard holds a task and shows the banner of a failed delete
C24_Witness ==
    /\ employeeDashboard.error = "Failed to delete task"
    /\ Len(employeeDashboard.tasks) > 0
    /\ \A slot \in Slots : inflight[slot] = Idle

\* the administrator's dashboard holds a task and shows the banner of a failed export
C24_WitnessExport ==
    /\ adminDashboard.error = "Failed to export tasks: Request failed with status code 404"
    /\ Len(adminDashboard.tasks) > 0

\* C27: in the employee's dashboard, once every add, update and delete under
\* way has completed, in whatever order the responses came, the list held is
\* the set of tasks the server stores for that employee.
C27_QuietListEqualsStore ==
    (/\ browser.path = "/employee-dashboard"
     /\ ~employeeDashboard.loading
     /\ employeeDashboard.error = ""
     /\ \A slot \in Slots : inflight[slot] = Idle)
        => {employeeDashboard.tasks[i] : i \in 1..Len(employeeDashboard.tasks)}
               = {tasks[i] : i \in {j \in 1..Len(tasks) : tasks[j].employeeId = browser.user.id}}

\* no request failed, none is under way, the store holds a task created
\* through the dashboard and the dashboard holds none
C27_WitnessLostAdd ==
    /\ browser.path = "/employee-dashboard"
    /\ employeeDashboard.error = ""
    /\ \A slot \in Slots : inflight[slot] = Idle
    /\ Len(tasks) = 1
    /\ tasks[1]._id = ObjectId("t", 2)
    /\ employeeDashboard.tasks = << >>

Admins == {u \in DOMAIN users : users[u].role = "admin"}

\* the same for a role that is a string or absent
C28_HoldsUnlessNull ==
    [][(last'.op = "register" /\ last'.arg.role # Null) =>
          /\ last'.arg.role \notin {NoRole, "employee", "admin"} =>
                 /\ last'.res.status = 400
                 /\ users' = users
                 /\ pending' = pending
          /\ last'.res.status = 201 =>
                 /\ last'.res.body.id \notin DOMAIN users
                 /\ users'[last'.res.body.id].role =
                        (IF last'.arg.role = NoRole THEN "employee" ELSE last'.arg.role)
                 /\ last'.res.body.role = users'[last'.res.body.id].role
      ]_vars

\* a registration with role null was answered 201 and stored a user of no role
C28_WitnessNullRole ==
    /\ last.op = "register"
    /\ last.arg.role = Null
    /\ last.res.status = 201
    /\ users[last.res.body.id].role = Null

\* C28: register stores the role the unauthenticated body names: with role
\* admin it creates an admin whose token the admin-only routes accept, with no
\* role an employee, and with a role outside {employee, admin} it is refused
\* and creates no user; the set of admins can grow through register alone.
C28_RoleFromBody ==
    /\ [][last'.op = "register" =>
             /\ last'.arg.role \notin {NoRole, "employee", "admin"} =>
                    /\ last'.res.status = 400
                    /\ users' = users
                    /\ pending' = pending
             /\ last'.res.status = 201 =>
                    /\ last'.res.body.id \notin DOMAIN users
                    /\ users'[last'.res.body.id].role =
                           (IF last'.arg.role = NoRole THEN "employee" ELSE last'.arg.role)
                    /\ last'.res.body.role = users'[last'.res.body.id].role
         ]_vars
    /\ []((last.op = "register" /\ last.res.status = 201) =>
             LET viaToken == Route(Bearer(last.res.body.token), TaskListRoles,
                                   GetTasksController)
             IN  IF last.arg.role = "admin" THEN viaToken.status = 200
                 ELSE viaToken.status = 403)
    /\ [](\A p \in pending : p.doc.role \in Roles)

\* a registration with role admin was answered 201 and the store holds two admins
C28_Witness ==
    /\ last.op = "register"
    /\ last.arg.role = "admin"
    /\ last.res.status = 201
    /\ last.res.body.role = "admin"
    /\ Cardinality(Admins) = 2

\* a registration with no role made an employee, one with role boss was refused
C28_WitnessDefault ==
    /\ last.op = "register"
    /\ last.arg.role = NoRole
    /\ last.res.status = 201
    /\ last.res.body.role = "employee"

C28_WitnessRefused ==
    /\ last.op = "register"
    /\ last.arg.role = "boss"
    /\ last.res.status = 400

DashboardOf(role) == IF role = "admin" THEN "AdminDashboard" ELSE "EmployeeDashboard"
DashboardPath(role) == IF role = "admin" THEN "/admin-dashboard" ELSE "/employee-dashboard"

\* C30: the admin dashboard is rendered only for an authenticated user of
\* role admin and the employee dashboard only for one of role employee; at a
\* dashboard path an unauthenticated visitor is redirected to /login and a
\* user of the other role to their own dashboard; after a login the user is
\* sent to the dashboard of the role in the login response.
C30_DashboardsByRole ==
    /\ [](/\ Rendered.render = "AdminDashboard" =>
                 isAuthenticated /\ browser.user.role = "admin"
          /\ Rendered.render = "EmployeeDashboard" =>
                 isAuthenticated /\ browser.user.role = "employee"
          /\ (browser.path \in {"/admin-dashboard", "/employee-dashboard"}
                 /\ ~isAuthenticated) => Rendered = Navigate("/login")
          /\ (isAuthenticated /\ browser.path \in {"/admin-dashboard", "/employee-dashboard"}
                 /\ browser.path # DashboardPath(browser.user.role))
                 => Rendered = Navigate(DashboardPath(browser.user.role)))
    /\ [][\A body \in RoutingLoginBodies :
             (LoginHandleSubmit(body) /\ last'.res.status = 200) =>
                 /\ browser'.user = last'.res.body
                 /\ browser'.user.role \in Roles
                 /\ browser'.path = DashboardPath(last'.res.body.role)
                 /\ Rendered' = Children(DashboardOf(last'.res.body.role))
         ]_vars

\* an employee is at the path of the admin dashboard and is being redirected
C30_Witness ==
    /\ isAuthenticated
    /\ browser.user.role = "employee"
    /\ browser.path = "/admin-dashboard"
    /\ Rendered = Navigate("/employee-dashboard")

\* the admin has logged in and sees the admin dashboard
C30_WitnessAdmin ==
    /\ last.op = "login"
    /\ last.res.status = 200
    /\ browser.user.role = "admin"
    /\ Rendered.render = "AdminDashboard"

====
